---------------------------- MODULE Spec2Model ----------------------------
(***************************************************************************)
(* A model of the XenStandard ownership primitives:                        *)
(*   xen::shared_ref   (src/mem/shared_ref.hpp)                            *)
(*   xen::observed_ref (src/mem/observed_ref.hpp)                          *)
(*   xen::unique_ref   (src/mem/unique_ref.hpp)                            *)
(*   xen::safe_u64     (src/core/safe_u64.hpp)                             *)
(*                                                                         *)
(* A client program holds a fixed number of handle slots.  A slot is       *)
(* either dead (no object constructed in it) or holds a live handle.  The  *)
(* heap is a set of pointees and counter cells, numbered in allocation     *)
(* order; 0 is nullptr.  For every pointee and cell the model counts how   *)
(* often `delete` was applied to it.                                       *)
(*                                                                         *)
(* Every member function is a pure operator from a heap-and-handles record *)
(* to the record after the call, so that a C++ body that calls a helper is *)
(* the composition of the operators.  The actions apply one member         *)
(* function of one handle per step (the design is single-threaded).        *)
(***************************************************************************)
EXTENDS Integers, FiniteSets, Sequences, TLC

\* ------------------------------------------------------------------ bounds
\* handle slots of the client program, per container family
NumHandles == 3
\* heap values (`new T`) the client may allocate for shared_ref handles
MaxObjs == 2

\* nullptr
Null == 0

Handles == 1..NumHandles
Objs == 1..MaxObjs
\* a shared_ref allocates one counter cell per adopted pointer
Cells == 1..MaxObjs

VARIABLES
    comp,        \* the component the client program exercises
    s_ptr,       \* shared_ref::_ptr of every slot
    s_cnt,       \* shared_ref::_shared_ref_count of every slot (a cell address)
    s_live,      \* slot holds a constructed, not yet destroyed shared_ref
    s_cell,      \* the u_size stored in every counter cell
    s_cellFrees, \* number of `delete` applied to every counter cell
    s_objFrees,  \* number of `delete` applied to every pointee
    s_nObj,      \* pointees allocated so far
    s_nCell,     \* counter cells allocated so far
    s_detached,  \* per counter cell: shared_ref copies made with `new` and never deleted
    s_fault,     \* the error that left a noexcept member function and ended the program
    s_call       \* the member function the last step ran

sharedVars == <<s_ptr, s_cnt, s_live, s_cell, s_cellFrees, s_objFrees, s_nObj, s_nCell,
               s_detached, s_fault, s_call>>

VARIABLES
    o_ptr,       \* observed_ref::_ptr of every slot
    o_blk,       \* observed_ref::_ref_counter of every slot (a block address)
    o_live,      \* slot holds a constructed, not yet destroyed observed_ref
    o_strong,    \* ref_counter_t::_strong_ref_count of every block
    o_weak,      \* ref_counter_t::_weak_ref_count of every block
    o_blkFrees,  \* number of `delete` applied to every block
    o_objFrees,  \* number of `delete` applied to every pointee
    o_nObj,      \* pointees allocated so far
    o_nBlk,      \* blocks allocated so far
    o_detached,  \* per block: observed_ref copies made with `new` and never deleted
    o_fault,     \* the error that left a noexcept member function and ended the program
    o_call       \* the member function the last step ran

observedVars == <<o_ptr, o_blk, o_live, o_strong, o_weak, o_blkFrees, o_objFrees, o_nObj, o_nBlk,
                 o_detached, o_fault, o_call>>

VARIABLES
    u_ptr,       \* unique_ref::_ptr of every slot
    u_live,      \* slot holds a constructed, not yet destroyed unique_ref
    u_objFrees,  \* number of `delete` applied to every pointee
    u_nObj,      \* pointees allocated so far
    u_raw,       \* raw pointers the client got from release() and still holds
    u_released,  \* pointees that release() has handed out at some time
    u_call       \* the member function the last step ran and the pointer it returned

uniqueVars == <<u_ptr, u_live, u_objFrees, u_nObj, u_raw, u_released, u_call>>

VARIABLES
    c_size,      \* safe_u64::_size of the counter the client works on
    c_call       \* the operator the last step ran: operand, _size before, error thrown, value returned

counterVars == <<c_size, c_call>>

\* what a call on one component leaves alone
sharedFrame == <<comp, observedVars, uniqueVars, counterVars>>
observedFrame == <<comp, sharedVars, uniqueVars, counterVars>>
uniqueFrame == <<comp, sharedVars, observedVars, counterVars>>
counterFrame == <<comp, sharedVars, observedVars, uniqueVars>>

\* -------------------------------------------------------------- safe_u64
\* The model scales the integer widths down: u64_t and i64_t are WordBits
\* wide, i32_t is IntBits wide (IntBits < WordBits, as 32 < 64).
WordBits == 3
IntBits == 2

\* numdef.hpp: U64_MIN, U64_MAX, I32_MIN, I32_MAX at the model's widths
U64_MIN == 0
U64_MAX == 2^WordBits - 1
I32_MIN == -(2^(IntBits - 1))
I32_MAX == 2^(IntBits - 1) - 1

U64 == U64_MIN..U64_MAX
I32 == I32_MIN..I32_MAX

\* unsigned arithmetic of u64_t is modulo 2^WordBits; static_cast<u64_t>(x)
to_u64(x) == x % (U64_MAX + 1)

\* enum class err, the kinds safe_u64 throws; NoErr: the operator returned
NoErr == "none"
NumOverflow == "NumOverflow"
NumUnderflow == "NumUnderflow"
DivideByZero == "DivideByZero"

\* the outcome of an operator: the counter's _size after it, the error thrown, the value returned
Returned(size, ret) == [size |-> size, err |-> NoErr, ret |-> ret]
Thrown(size, e) == [size |-> size, err |-> e, ret |-> U64_MIN]

is_safe_add_u64_off_by_one(a, b) == a < (U64_MAX - b)

\* safe_u64::_is_safe_add_u64
is_safe_add_u64(a, b) == a <= (U64_MAX - b)

\* safe_u64::_is_safe_sub_u64
is_safe_sub_u64(a, b) == a >= b

is_safe_mul_u64_wrapped_product(a, b) == IF b = 0 THEN TRUE ELSE to_u64(a * b) >= a

\* safe_u64::_is_safe_mul_u64
is_safe_mul_u64(a, b) == IF b = 0 THEN TRUE ELSE a <= (U64_MAX \div b)

\* safe_u64::_is_safe_div_u64
is_safe_div_u64(a, b) == b # 0

\* safe_u64::safe_u64(u64_t val)
ct_ctor_u64(v) == v

ct_ctor_i32_wraps(k) == to_u64(k)

\* safe_u64::safe_u64(i32_t val)
ct_ctor_i32(k) == to_u64(IF k < 0 THEN 0 ELSE to_u64(k))

\* safe_u64::operator u64_t
ct_to_u64(s) == s

ct_pre_inc_unchecked(s) == Returned(to_u64(s + 1), to_u64(s + 1))

\* operator++(safe_u64&)
ct_pre_inc(s) ==
    IF s = U64_MAX THEN Thrown(s, NumOverflow)
    ELSE Returned(to_u64(s + 1), to_u64(s + 1))

\* operator++(safe_u64&, int)
ct_post_inc(s) ==
    LET tmp == s
        r   == ct_pre_inc(s)
    IN  IF r.err # NoErr THEN r ELSE Returned(r.size, tmp)

ct_add_assign_u_stores_first(s, rhs) ==
    IF ~is_safe_add_u64(s, rhs) THEN Thrown(to_u64(s + rhs), NumOverflow)
    ELSE Returned(to_u64(s + rhs), to_u64(s + rhs))

\* operator+=(safe_u64&, u64_t)
ct_add_assign_u(s, rhs) ==
    IF ~is_safe_add_u64(s, rhs) THEN Thrown(s, NumOverflow)
    ELSE Returned(to_u64(s + rhs), to_u64(s + rhs))

\* operator+(safe_u64, u64_t): += on the by-value copy
ct_add_u(s, rhs) ==
    LET r == ct_add_assign_u(s, rhs)
    IN  IF r.err # NoErr THEN Thrown(s, r.err) ELSE Returned(s, r.size)

\* operator-=(safe_u64&, u64_t)
ct_sub_assign_u(s, rhs) ==
    IF ~is_safe_sub_u64(s, rhs) THEN Thrown(s, NumUnderflow)
    ELSE Returned(to_u64(s - rhs), to_u64(s - rhs))

\* operator-(safe_u64, u64_t)
ct_sub_u(s, rhs) ==
    LET r == ct_sub_assign_u(s, rhs)
    IN  IF r.err # NoErr THEN Thrown(s, r.err) ELSE Returned(s, r.size)

ct_add_assign_i_negates_in_i32(s, rhs) ==
    IF rhs < 0
    THEN LET neg == ((-rhs - I32_MIN) % (I32_MAX - I32_MIN + 1)) + I32_MIN
             sub == to_u64(neg)
         IN  IF ~is_safe_sub_u64(s, sub) THEN Thrown(s, NumUnderflow)
             ELSE Returned(to_u64(s - sub), to_u64(s - sub))
    ELSE LET add == to_u64(rhs)
         IN  IF ~is_safe_add_u64(s, add) THEN Thrown(s, NumOverflow)
             ELSE Returned(to_u64(s + add), to_u64(s + add))

\* operator+=(safe_u64&, i32_t)
ct_add_assign_i(s, rhs) ==
    IF rhs < 0
    THEN LET sub == to_u64(-rhs)
         IN  IF ~is_safe_sub_u64(s, sub) THEN Thrown(s, NumUnderflow)
             ELSE Returned(to_u64(s - sub), to_u64(s - sub))
    ELSE LET add == to_u64(rhs)
         IN  IF ~is_safe_add_u64(s, add) THEN Thrown(s, NumOverflow)
             ELSE Returned(to_u64(s + add), to_u64(s + add))

\* operator--(safe_u64&)
ct_pre_dec(s) ==
    IF s = U64_MIN THEN Thrown(s, NumUnderflow)
    ELSE Returned(to_u64(s - 1), to_u64(s - 1))

ct_post_dec_returns_new(s) == ct_pre_dec(s)

\* operator--(safe_u64&, int)
ct_post_dec(s) ==
    LET tmp == s
        r   == ct_pre_dec(s)
    IN  IF r.err # NoErr THEN r ELSE Returned(r.size, tmp)

\* operator-=(safe_u64&, i32_t)
ct_sub_assign_i(s, rhs) ==
    IF rhs < 0
    THEN LET add == to_u64(-rhs)
         IN  IF ~is_safe_add_u64(s, add) THEN Thrown(s, NumOverflow)
             ELSE Returned(to_u64(s + add), to_u64(s + add))
    ELSE LET sub == to_u64(rhs)
         IN  IF ~is_safe_sub_u64(s, sub) THEN Thrown(s, NumUnderflow)
             ELSE Returned(to_u64(s - sub), to_u64(s - sub))

\* operator*=(safe_u64&, u64_t)
ct_mul_assign_u(s, rhs) ==
    IF ~is_safe_mul_u64(s, rhs) THEN Thrown(s, NumOverflow)
    ELSE Returned(to_u64(s * rhs), to_u64(s * rhs))

\* operator*(safe_u64, u64_t)
ct_mul_u(s, rhs) ==
    LET r == ct_mul_assign_u(s, rhs)
    IN  IF r.err # NoErr THEN Thrown(s, r.err) ELSE Returned(s, r.size)

\* operator*=(safe_u64&, i32_t)
ct_mul_assign_i(s, rhs) ==
    IF rhs < 0 THEN Thrown(s, NumOverflow)
    ELSE ct_mul_assign_u(s, to_u64(rhs))

\* operator/=(safe_u64&, u64_t)
ct_div_assign_u(s, rhs) ==
    IF rhs = 0 THEN Thrown(s, DivideByZero)
    ELSE Returned(s \div rhs, s \div rhs)

\* operator/(safe_u64, u64_t)
ct_div_u(s, rhs) ==
    LET r == ct_div_assign_u(s, rhs)
    IN  IF r.err # NoErr THEN Thrown(s, r.err) ELSE Returned(s, r.size)

\* `c /= k` with an i32_t k: the only candidate is operator/=(safe_u64&, u64_t),
\* so k is converted to u64_t
ct_div_assign_i(s, rhs) == ct_div_assign_u(s, to_u64(rhs))

\* operator+(safe_u64, i32_t): += on the by-value copy
ct_add_i(s, rhs) ==
    LET r == ct_add_assign_i(s, rhs)
    IN  IF r.err # NoErr THEN Thrown(s, r.err) ELSE Returned(s, r.size)

\* operator+(i32_t, const safe_u64&): += on a copy of the counter
ct_i_add(lhs, s) ==
    LET r == ct_add_assign_i(s, lhs)
    IN  IF r.err # NoErr THEN Thrown(s, r.err) ELSE Returned(s, r.size)

\* operator-(safe_u64, i32_t)
ct_sub_i(s, rhs) ==
    LET r == ct_sub_assign_i(s, rhs)
    IN  IF r.err # NoErr THEN Thrown(s, r.err) ELSE Returned(s, r.size)

\* operator*(safe_u64, i32_t)
ct_mul_i(s, rhs) ==
    LET r == ct_mul_assign_i(s, rhs)
    IN  IF r.err # NoErr THEN Thrown(s, r.err) ELSE Returned(s, r.size)

\* operator*(i32_t, const safe_u64&)
ct_i_mul(lhs, s) ==
    IF lhs < 0 THEN Thrown(s, NumOverflow)
    ELSE ct_mul_u(s, to_u64(lhs))

\* comparison of the u64_t _size with an i32_t: the usual arithmetic
\* conversions turn the int operand into a u64_t before the built-in
\* comparison is made
ct_eq_i(s, b) == s = to_u64(b)
ct_ne_i(s, b) == s # to_u64(b)
ct_lt_i(s, b) == s < to_u64(b)
ct_gt_i(s, b) == s > to_u64(b)
ct_le_i(s, b) == s <= to_u64(b)
ct_ge_i(s, b) == s >= to_u64(b)

\* the same with the i32_t on the left
ct_i_eq(a, s) == to_u64(a) = s
ct_i_ne(a, s) == to_u64(a) # s
ct_i_lt(a, s) == to_u64(a) < s
ct_i_gt(a, s) == to_u64(a) > s
ct_i_le(a, s) == to_u64(a) <= s
ct_i_ge(a, s) == to_u64(a) >= s

CtCall(op, rhs, pre, r) ==
    [op |-> op, rhs |-> rhs, pre |-> pre, err |-> r.err, ret |-> r.ret]

\* safe_u64 c;   _size{0}
CtInit ==
    /\ c_size = 0
    /\ c_call = CtCall("none", 0, 0, Returned(0, 0))

\* the step of the client that applies one operator with outcome r
CtApply(op, rhs, r) ==
    /\ comp = "counter"
    /\ c_size' = r.size
    /\ c_call' = CtCall(op, rhs, c_size, r)
    /\ UNCHANGED counterFrame

\* c = safe_u64{v};  v a u64_t
CtConstructU64 ==
    \E v \in U64 : CtApply("ctor_u64", v, Returned(ct_ctor_u64(v), ct_ctor_u64(v)))

\* c = safe_u64{k};  k an i32_t
CtConstructI32 ==
    \E k \in I32 : CtApply("ctor_i32", k, Returned(ct_ctor_i32(k), ct_ctor_i32(k)))

\* ++c;
CtPreInc == CtApply("pre_inc", 0, ct_pre_inc(c_size))

\* c++;
CtPostInc == CtApply("post_inc", 0, ct_post_inc(c_size))

\* --c;
CtPreDec == CtApply("pre_dec", 0, ct_pre_dec(c_size))

\* c--;
CtPostDec == CtApply("post_dec", 0, ct_post_dec(c_size))

\* c += b;  b a u64_t
CtAddAssignU64 == \E b \in U64 : CtApply("add_assign_u64", b, ct_add_assign_u(c_size, b))

\* c -= b;
CtSubAssignU64 == \E b \in U64 : CtApply("sub_assign_u64", b, ct_sub_assign_u(c_size, b))

\* c *= b;
CtMulAssignU64 == \E b \in U64 : CtApply("mul_assign_u64", b, ct_mul_assign_u(c_size, b))

\* c /= b;
CtDivAssignU64 == \E b \in U64 : CtApply("div_assign_u64", b, ct_div_assign_u(c_size, b))

\* c += k;  k an i32_t
CtAddAssignI32 == \E k \in I32 : CtApply("add_assign_i32", k, ct_add_assign_i(c_size, k))

\* c -= k;
CtSubAssignI32 == \E k \in I32 : CtApply("sub_assign_i32", k, ct_sub_assign_i(c_size, k))

\* c *= k;
CtMulAssignI32 == \E k \in I32 : CtApply("mul_assign_i32", k, ct_mul_assign_i(c_size, k))

\* c /= k;
CtDivAssignI32 == \E k \in I32 : CtApply("div_assign_i32", k, ct_div_assign_i(c_size, k))

\* c + b;  b a u64_t
CtAddU64 == \E b \in U64 : CtApply("add_u64", b, ct_add_u(c_size, b))

\* c - b;
CtSubU64 == \E b \in U64 : CtApply("sub_u64", b, ct_sub_u(c_size, b))

\* c * b;
CtMulU64 == \E b \in U64 : CtApply("mul_u64", b, ct_mul_u(c_size, b))

\* c / b;
CtDivU64 == \E b \in U64 : CtApply("div_u64", b, ct_div_u(c_size, b))

\* c + k;  k an i32_t
CtAddI32 == \E k \in I32 : CtApply("add_i32", k, ct_add_i(c_size, k))

\* k + c;
CtI32Add == \E k \in I32 : CtApply("i32_add", k, ct_i_add(k, c_size))

\* c - k;
CtSubI32 == \E k \in I32 : CtApply("sub_i32", k, ct_sub_i(c_size, k))

\* c * k;
CtMulI32 == \E k \in I32 : CtApply("mul_i32", k, ct_mul_i(c_size, k))

\* k * c;
CtI32Mul == \E k \in I32 : CtApply("i32_mul", k, ct_i_mul(k, c_size))

\* static_cast<u64_t>(c)
CtToU64 == CtApply("to_u64", 0, Returned(c_size, ct_to_u64(c_size)))

\* c == k;  k an i32_t
CtEqI32 == \E k \in I32 : CtApply("eq_i32", k, Returned(c_size, ct_eq_i(c_size, k)))

\* c != k;
CtNeI32 == \E k \in I32 : CtApply("ne_i32", k, Returned(c_size, ct_ne_i(c_size, k)))

\* c < k;
CtLtI32 == \E k \in I32 : CtApply("lt_i32", k, Returned(c_size, ct_lt_i(c_size, k)))

\* c > k;
CtGtI32 == \E k \in I32 : CtApply("gt_i32", k, Returned(c_size, ct_gt_i(c_size, k)))

\* c <= k;
CtLeI32 == \E k \in I32 : CtApply("le_i32", k, Returned(c_size, ct_le_i(c_size, k)))

\* c >= k;
CtGeI32 == \E k \in I32 : CtApply("ge_i32", k, Returned(c_size, ct_ge_i(c_size, k)))

\* k == c;
CtI32Eq == \E k \in I32 : CtApply("i32_eq", k, Returned(c_size, ct_i_eq(k, c_size)))

\* k != c;
CtI32Ne == \E k \in I32 : CtApply("i32_ne", k, Returned(c_size, ct_i_ne(k, c_size)))

\* k < c;
CtI32Lt == \E k \in I32 : CtApply("i32_lt", k, Returned(c_size, ct_i_lt(k, c_size)))

\* k > c;
CtI32Gt == \E k \in I32 : CtApply("i32_gt", k, Returned(c_size, ct_i_gt(k, c_size)))

\* k <= c;
CtI32Le == \E k \in I32 : CtApply("i32_le", k, Returned(c_size, ct_i_le(k, c_size)))

\* k >= c;
CtI32Ge == \E k \in I32 : CtApply("i32_ge", k, Returned(c_size, ct_i_ge(k, c_size)))

NextCounter ==
    \/ CtConstructU64
    \/ CtConstructI32
    \/ CtPreInc
    \/ CtPostInc
    \/ CtPreDec
    \/ CtPostDec
    \/ CtAddAssignU64
    \/ CtSubAssignU64
    \/ CtMulAssignU64
    \/ CtDivAssignU64
    \/ CtAddAssignI32
    \/ CtSubAssignI32
    \/ CtMulAssignI32
    \/ CtDivAssignI32
    \/ CtAddU64
    \/ CtSubU64
    \/ CtMulU64
    \/ CtDivU64
    \/ CtAddI32
    \/ CtI32Add
    \/ CtSubI32
    \/ CtMulI32
    \/ CtI32Mul
    \/ CtToU64
    \/ CtEqI32
    \/ CtNeI32
    \/ CtLtI32
    \/ CtGtI32
    \/ CtLeI32
    \/ CtGeI32
    \/ CtI32Eq
    \/ CtI32Ne
    \/ CtI32Lt
    \/ CtI32Gt
    \/ CtI32Le
    \/ CtI32Ge

\* ------------------------------------------------------------ shared_ref
\* the heap-and-handles record the member functions of shared_ref act on
ShWorld ==
    [ptr |-> s_ptr, cnt |-> s_cnt, live |-> s_live, cell |-> s_cell,
     cellFrees |-> s_cellFrees, objFrees |-> s_objFrees,
     nObj |-> s_nObj, nCell |-> s_nCell,
     detached |-> s_detached, fault |-> s_fault]

\* a step of the program: none once an error has left a noexcept function
ShStore(w) ==
    /\ s_fault = NoErr
    /\ s_detached' = w.detached
    /\ s_fault' = w.fault
    /\ s_ptr' = w.ptr
    /\ s_cnt' = w.cnt
    /\ s_live' = w.live
    /\ s_cell' = w.cell
    /\ s_cellFrees' = w.cellFrees
    /\ s_objFrees' = w.objFrees
    /\ s_nObj' = w.nObj
    /\ s_nCell' = w.nCell

\* `delete p` on a pointee: deleting nullptr does nothing
sh_delete_obj(w, p) ==
    IF p = Null THEN w ELSE [w EXCEPT !.objFrees[p] = @ + 1]

\* `delete c` on a counter cell
sh_delete_cell(w, c) ==
    IF c = Null THEN w ELSE [w EXCEPT !.cellFrees[c] = @ + 1]

\* `new u_size{1}`
sh_new_cell(w) ==
    [w EXCEPT !.nCell = @ + 1, !.cell[w.nCell + 1] = 1]

sh_add_owner_no_increment(w, h) == w

\* u_size, the type of every reference count: the overflow-checked counter
u_size_pre_inc(v) == ct_pre_inc(v)

\* shared_ref::_add_owner; an error of ++ leaves the count as it was
sh_add_owner(w, h) ==
    IF w.cnt[h] # Null
    THEN LET r == u_size_pre_inc(w.cell[w.cnt[h]])
         IN  IF r.err # NoErr
             THEN [w EXCEPT !.fault = r.err]
             ELSE [w EXCEPT !.cell[w.cnt[h]] = r.size]
    ELSE w

sh_remove_owner_keeps_counter(w, h) ==
    IF w.cnt[h] = Null THEN w
    ELSE LET c  == w.cnt[h]
             w1 == [w EXCEPT !.cell[c] = @ - 1]
             w2 == IF w1.cell[c] = 0
                   THEN sh_delete_cell(sh_delete_obj(w1, w1.ptr[h]), c)
                   ELSE w1
         IN  [w2 EXCEPT !.ptr[h] = Null]

\* shared_ref::_remove_owner
sh_remove_owner(w, h) ==
    IF w.cnt[h] = Null THEN w
    ELSE LET c  == w.cnt[h]
             w1 == [w EXCEPT !.cell[c] = @ - 1]
             w2 == IF w1.cell[c] = 0
                   THEN sh_delete_cell(sh_delete_obj(w1, w1.ptr[h]), c)
                   ELSE w1
         IN  [w2 EXCEPT !.ptr[h] = Null, !.cnt[h] = Null]

\* shared_ref::shared_ref(T_* ptr), and the default constructor for ptr = nullptr
sh_ctor(w, h, p) ==
    IF p # Null
    THEN LET w1 == sh_new_cell(w)
         IN  [w1 EXCEPT !.ptr[h] = p, !.cnt[h] = w1.nCell, !.live[h] = TRUE]
    ELSE [w EXCEPT !.ptr[h] = Null, !.cnt[h] = Null, !.live[h] = TRUE]

\* shared_ref::~shared_ref
sh_dtor(w, h) ==
    LET w1 == [w EXCEPT !.ptr[h] = Null]
    IN  [sh_remove_owner(w1, h) EXCEPT !.live[h] = FALSE]

\* shared_ref::shared_ref(const shared_ref& other)
sh_copy_ctor(w, h, g) ==
    LET w1 == [w EXCEPT !.ptr[h] = w.ptr[g], !.cnt[h] = w.cnt[g], !.live[h] = TRUE]
    IN  IF w.ptr[g] # Null THEN sh_add_owner(w1, h) ELSE w1

\* `new shared_ref<T>{g}`: the copy constructor builds a handle on the heap; the
\* new handle holds g's cell, so its _add_owner acts on the cell g holds; the
\* client never deletes the copy
sh_copy_detached(w, g) ==
    IF w.ptr[g] # Null
    THEN LET w1 == sh_add_owner(w, g)
         IN  IF w1.fault # NoErr THEN w1
             ELSE [w1 EXCEPT !.detached[w.cnt[g]] = @ + 1]
    ELSE w

sh_copy_assign_no_self_check(w, h, g) ==
    LET w1 == sh_remove_owner(w, h)
        w2 == [w1 EXCEPT !.ptr[h] = w1.ptr[g], !.cnt[h] = w1.cnt[g]]
    IN  sh_add_owner(w2, h)

\* shared_ref::operator=(const shared_ref& other)
sh_copy_assign(w, h, g) ==
    IF h # g
    THEN LET w1 == sh_remove_owner(w, h)
             w2 == [w1 EXCEPT !.ptr[h] = w1.ptr[g], !.cnt[h] = w1.cnt[g]]
         IN  sh_add_owner(w2, h)
    ELSE w

sh_move_ctor_keeps_source(w, h, g) ==
    [w EXCEPT !.ptr[h] = w.ptr[g], !.cnt[h] = w.cnt[g], !.live[h] = TRUE]

\* shared_ref::shared_ref(shared_ref&& other)
sh_move_ctor(w, h, g) ==
    [w EXCEPT !.ptr[h] = w.ptr[g], !.cnt[h] = w.cnt[g], !.live[h] = TRUE,
              !.ptr[g] = Null, !.cnt[g] = Null]

sh_move_assign_keep_source(w, h, g) ==
    IF g # h
    THEN LET w1 == sh_remove_owner(w, h)
         IN  [w1 EXCEPT !.ptr[h] = w1.ptr[g], !.cnt[h] = w1.cnt[g]]
    ELSE w

\* shared_ref::operator=(shared_ref&& other)
sh_move_assign(w, h, g) ==
    IF g # h
    THEN LET w1 == sh_remove_owner(w, h)
         IN  [w1 EXCEPT !.ptr[h] = w1.ptr[g], !.cnt[h] = w1.cnt[g],
                        !.ptr[g] = Null, !.cnt[g] = Null]
    ELSE w

sh_reset_skips_release(w, h, p) ==
    IF p # Null
    THEN LET w2 == sh_new_cell(w)
         IN  [w2 EXCEPT !.ptr[h] = p, !.cnt[h] = w2.nCell]
    ELSE [w EXCEPT !.ptr[h] = Null, !.cnt[h] = Null]

\* shared_ref::reset(T_* ptr)
sh_reset(w, h, p) ==
    LET w1 == sh_remove_owner(w, h)
    IN  IF p # Null
        THEN LET w2 == sh_new_cell(w1)
             IN  [w2 EXCEPT !.ptr[h] = p, !.cnt[h] = w2.nCell]
        ELSE w1

\* shared_ref::get_shared_ref_count
sh_get_shared_ref_count(w, h) ==
    IF w.cnt[h] = Null THEN 0 ELSE w.cell[w.cnt[h]]

\* shared_ref::operator bool
sh_bool(w, h) == w.ptr[h] # Null

\* `new T{...}` by the client (or by build_shared): the next heap value
sh_new_obj(w) == [w EXCEPT !.nObj = @ + 1]

ShInit ==
    /\ s_ptr = [h \in Handles |-> Null]
    /\ s_cnt = [h \in Handles |-> Null]
    /\ s_live = [h \in Handles |-> FALSE]
    /\ s_cell = [c \in Cells |-> 0]
    /\ s_cellFrees = [c \in Cells |-> 0]
    /\ s_objFrees = [o \in Objs |-> 0]
    /\ s_nObj = 0
    /\ s_nCell = 0
    /\ s_detached = [c \in Cells |-> 0]
    /\ s_fault = NoErr
    /\ s_call = "none"

\* shared_ref<T> h{new T{...}}   (build_shared<T>(...))
ShConstruct ==
    \E h \in Handles :
        /\ comp = "shared"
        /\ ~s_live[h]
        /\ s_nObj < MaxObjs
        /\ LET w == sh_new_obj(ShWorld)
           IN  /\ ShStore(sh_ctor(w, h, w.nObj))
               /\ s_call' = "ctor"
        /\ UNCHANGED sharedFrame

\* shared_ref<T> h;   shared_ref<T> h{nullptr};
ShConstructEmpty ==
    \E h \in Handles :
        /\ comp = "shared"
        /\ ~s_live[h]
        /\ ShStore(sh_ctor(ShWorld, h, Null))
        /\ s_call' = "ctor"
        /\ UNCHANGED sharedFrame

\* shared_ref<T> h{g};
ShCopyConstruct ==
    \E h, g \in Handles :
        /\ comp = "shared"
        /\ ~s_live[h] /\ s_live[g]
        /\ ShStore(sh_copy_ctor(ShWorld, h, g))
        /\ s_call' = "copy_ctor"
        /\ UNCHANGED sharedFrame

\* h = g;   (h and g may be the same handle)
ShCopyAssign ==
    \E h, g \in Handles :
        /\ comp = "shared"
        /\ s_live[h] /\ s_live[g]
        /\ ShStore(sh_copy_assign(ShWorld, h, g))
        /\ s_call' = "copy_assign"
        /\ UNCHANGED sharedFrame

\* shared_ref<T> h{std::move(g)};
ShMoveConstruct ==
    \E h, g \in Handles :
        /\ comp = "shared"
        /\ ~s_live[h] /\ s_live[g]
        /\ ShStore(sh_move_ctor(ShWorld, h, g))
        /\ s_call' = "move_ctor"
        /\ UNCHANGED sharedFrame

\* h = std::move(g);   (h and g may be the same handle)
ShMoveAssign ==
    \E h, g \in Handles :
        /\ comp = "shared"
        /\ s_live[h] /\ s_live[g]
        /\ ShStore(sh_move_assign(ShWorld, h, g))
        /\ s_call' = "move_assign"
        /\ UNCHANGED sharedFrame

\* h.reset();
ShResetNull ==
    \E h \in Handles :
        /\ comp = "shared"
        /\ s_live[h]
        /\ ShStore(sh_reset(ShWorld, h, Null))
        /\ s_call' = "reset"
        /\ UNCHANGED sharedFrame

\* h.reset(new T{...});
ShResetFresh ==
    \E h \in Handles :
        /\ comp = "shared"
        /\ s_live[h]
        /\ s_nObj < MaxObjs
        /\ LET w == sh_new_obj(ShWorld)
           IN  /\ ShStore(sh_reset(w, h, w.nObj))
               /\ s_call' = "reset"
        /\ UNCHANGED sharedFrame

\* h.reset(h.get_ptr());   for a non-empty h; reset allocates a counter cell
ShResetOwn ==
    \E h \in Handles :
        /\ comp = "shared"
        /\ s_live[h] /\ s_ptr[h] # Null
        /\ s_nCell < MaxObjs
        /\ ShStore(sh_reset(ShWorld, h, s_ptr[h]))
        /\ s_call' = "reset_own"
        /\ UNCHANGED sharedFrame

\* new shared_ref<T>{g};   for a non-empty g
ShCopyDetached ==
    \E g \in Handles :
        /\ comp = "shared"
        /\ s_live[g] /\ s_ptr[g] # Null
        /\ ShStore(sh_copy_detached(ShWorld, g))
        /\ s_call' = "copy_detached"
        /\ UNCHANGED sharedFrame

\* h goes out of scope
ShDestroy ==
    \E h \in Handles :
        /\ comp = "shared"
        /\ s_live[h]
        /\ ShStore(sh_dtor(ShWorld, h))
        /\ s_call' = "dtor"
        /\ UNCHANGED sharedFrame

NextShared ==
    \/ ShConstruct
    \/ ShConstructEmpty
    \/ ShCopyConstruct
    \/ ShCopyAssign
    \/ ShMoveConstruct
    \/ ShMoveAssign
    \/ ShResetNull
    \/ ShResetFresh
    \/ ShDestroy

\* ---------------------------------------------------------- observed_ref
\* weak-style aliases the client may hold at a time
MaxWeak == 1

Blocks == 1..MaxObjs

ObWorld ==
    [ptr |-> o_ptr, blk |-> o_blk, live |-> o_live, strong |-> o_strong,
     weak |-> o_weak, blkFrees |-> o_blkFrees, objFrees |-> o_objFrees,
     nObj |-> o_nObj, nBlk |-> o_nBlk,
     detached |-> o_detached, fault |-> o_fault]

\* a step of the program: none once an error has left a noexcept function
ObStore(w) ==
    /\ o_fault = NoErr
    /\ o_detached' = w.detached
    /\ o_fault' = w.fault
    /\ o_ptr' = w.ptr
    /\ o_blk' = w.blk
    /\ o_live' = w.live
    /\ o_strong' = w.strong
    /\ o_weak' = w.weak
    /\ o_blkFrees' = w.blkFrees
    /\ o_objFrees' = w.objFrees
    /\ o_nObj' = w.nObj
    /\ o_nBlk' = w.nBlk

\* ref_counter_t::get_strong_count
rc_get_strong_count(w, b) == w.strong[b]

\* ref_counter_t::get_weak_count
rc_get_weak_count(w, b) == w.weak[b]

\* ref_counter_t::get_total_count
rc_get_total_count(w, b) == w.strong[b] + w.weak[b]

\* ref_counter_t::has_no_strong_ref
rc_has_no_strong_ref(w, b) == w.strong[b] = 0

rc_has_no_reference_ignores_weak(w, b) == w.strong[b] = 0

\* ref_counter_t::has_no_reference
rc_has_no_reference(w, b) == rc_get_total_count(w, b) = 0

rc_inc_strong_ref_no_increment(w, b) == w

\* ref_counter_t::inc_strong_ref; an error of ++ leaves the count as it was
rc_inc_strong_ref(w, b) ==
    LET r == u_size_pre_inc(w.strong[b])
    IN  IF r.err # NoErr
        THEN [w EXCEPT !.fault = r.err]
        ELSE [w EXCEPT !.strong[b] = r.size]

\* ref_counter_t::dec_strong_ref
rc_dec_strong_ref(w, b) == [w EXCEPT !.strong[b] = @ - 1]

\* ref_counter_t::inc_weak_ref
rc_inc_weak_ref(w, b) ==
    LET r == u_size_pre_inc(w.weak[b])
    IN  IF r.err # NoErr
        THEN [w EXCEPT !.fault = r.err]
        ELSE [w EXCEPT !.weak[b] = r.size]

\* ref_counter_t::dec_weak_ref
rc_dec_weak_ref(w, b) == [w EXCEPT !.weak[b] = @ - 1]

\* `delete _ptr`
ob_delete_obj(w, p) ==
    IF p = Null THEN w ELSE [w EXCEPT !.objFrees[p] = @ + 1]

\* `delete _ref_counter`
ob_delete_blk(w, b) ==
    IF b = Null THEN w ELSE [w EXCEPT !.blkFrees[b] = @ + 1]

\* `new ref_counter_t{}`: strong = 1, weak = 0
ob_new_blk(w) ==
    [w EXCEPT !.nBlk = @ + 1, !.strong[w.nBlk + 1] = 1, !.weak[w.nBlk + 1] = 0]

\* observed_ref::_add_owner
ob_add_owner(w, h) ==
    IF w.ptr[h] # Null /\ w.blk[h] # Null THEN rc_inc_strong_ref(w, w.blk[h]) ELSE w

\* observed_ref::_remove_owner
ob_remove_owner(w, h) ==
    IF w.ptr[h] = Null \/ w.blk[h] = Null THEN w
    ELSE LET b  == w.blk[h]
             w1 == rc_dec_strong_ref(w, b)
             w2 == IF rc_has_no_strong_ref(w1, b) THEN ob_delete_obj(w1, w1.ptr[h]) ELSE w1
             w3 == IF rc_has_no_reference(w2, b) THEN ob_delete_blk(w2, b) ELSE w2
         IN  [w3 EXCEPT !.ptr[h] = Null, !.blk[h] = Null]

\* observed_ref::observed_ref(T_* ptr), and the default constructor for ptr = nullptr
ob_ctor(w, h, p) ==
    IF p # Null
    THEN LET w1 == ob_new_blk(w)
         IN  [w1 EXCEPT !.ptr[h] = p, !.blk[h] = w1.nBlk, !.live[h] = TRUE]
    ELSE [w EXCEPT !.ptr[h] = Null, !.blk[h] = Null, !.live[h] = TRUE]

\* observed_ref::~observed_ref
ob_dtor(w, h) == [ob_remove_owner(w, h) EXCEPT !.live[h] = FALSE]

\* observed_ref::observed_ref(const observed_ref& other)
ob_copy_ctor(w, h, g) ==
    ob_add_owner([w EXCEPT !.ptr[h] = w.ptr[g], !.blk[h] = w.blk[g], !.live[h] = TRUE], h)

\* `new observed_ref<T>{g}`: the copy constructor builds a handle on the heap;
\* the new handle holds g's pointer and block, so its _add_owner acts on the
\* block g holds; the client never deletes the copy
ob_copy_detached(w, g) ==
    LET w1 == ob_add_owner(w, g)
    IN  IF w1.fault # NoErr \/ w.ptr[g] = Null \/ w.blk[g] = Null THEN w1
        ELSE [w1 EXCEPT !.detached[w.blk[g]] = @ + 1]

\* observed_ref::operator=(const observed_ref& other)
ob_copy_assign(w, h, g) ==
    IF h # g
    THEN LET w1 == ob_remove_owner(w, h)
             w2 == [w1 EXCEPT !.ptr[h] = w1.ptr[g], !.blk[h] = w1.blk[g]]
         IN  ob_add_owner(w2, h)
    ELSE w

\* observed_ref::observed_ref(observed_ref&& other)
ob_move_ctor(w, h, g) ==
    [w EXCEPT !.ptr[h] = w.ptr[g], !.blk[h] = w.blk[g], !.live[h] = TRUE,
              !.ptr[g] = Null, !.blk[g] = Null]

\* observed_ref::operator=(observed_ref&& other): _remove_owner, then two std::swap
ob_move_assign(w, h, g) ==
    IF g # h
    THEN LET w1 == ob_remove_owner(w, h)
         IN  [w1 EXCEPT !.ptr[h] = w1.ptr[g], !.ptr[g] = w1.ptr[h],
                        !.blk[h] = w1.blk[g], !.blk[g] = w1.blk[h]]
    ELSE w

\* observed_ref::reset(T_* ptr)
ob_reset(w, h, p) ==
    LET w1 == ob_remove_owner(w, h)
    IN  IF p # Null
        THEN LET w2 == ob_new_blk(w1)
             IN  [w2 EXCEPT !.ptr[h] = p, !.blk[h] = w2.nBlk]
        ELSE w1

\* observed_ref::operator bool
ob_bool(w, h) == w.ptr[h] # Null

\* the strong count a handle reports: get_ref_counter()->get_strong_count(), 0 when empty
ob_strong_count(w, h) ==
    IF w.blk[h] = Null THEN 0 ELSE rc_get_strong_count(w, w.blk[h])

\* `new T{...}` by the client (or by build_observed)
ob_new_obj(w) == [w EXCEPT !.nObj = @ + 1]

ObInit ==
    /\ o_ptr = [h \in Handles |-> Null]
    /\ o_blk = [h \in Handles |-> Null]
    /\ o_live = [h \in Handles |-> FALSE]
    /\ o_strong = [b \in Blocks |-> 0]
    /\ o_weak = [b \in Blocks |-> 0]
    /\ o_blkFrees = [b \in Blocks |-> 0]
    /\ o_objFrees = [o \in Objs |-> 0]
    /\ o_nObj = 0
    /\ o_nBlk = 0
    /\ o_detached = [b \in Blocks |-> 0]
    /\ o_fault = NoErr
    /\ o_call = "none"

\* observed_ref<T> h{new T{...}}   (build_observed<T>(...))
ObConstruct ==
    \E h \in Handles :
        /\ comp = "observed"
        /\ ~o_live[h]
        /\ o_nObj < MaxObjs
        /\ LET w == ob_new_obj(ObWorld)
           IN  /\ ObStore(ob_ctor(w, h, w.nObj))
               /\ o_call' = "ctor"
        /\ UNCHANGED observedFrame

\* observed_ref<T> h;
ObConstructEmpty ==
    \E h \in Handles :
        /\ comp = "observed"
        /\ ~o_live[h]
        /\ ObStore(ob_ctor(ObWorld, h, Null))
        /\ o_call' = "ctor"
        /\ UNCHANGED observedFrame

\* observed_ref<T> h{g};
ObCopyConstruct ==
    \E h, g \in Handles :
        /\ comp = "observed"
        /\ ~o_live[h] /\ o_live[g]
        /\ ObStore(ob_copy_ctor(ObWorld, h, g))
        /\ o_call' = "copy_ctor"
        /\ UNCHANGED observedFrame

\* h = g;
ObCopyAssign ==
    \E h, g \in Handles :
        /\ comp = "observed"
        /\ o_live[h] /\ o_live[g]
        /\ ObStore(ob_copy_assign(ObWorld, h, g))
        /\ o_call' = "copy_assign"
        /\ UNCHANGED observedFrame

\* observed_ref<T> h{std::move(g)};
ObMoveConstruct ==
    \E h, g \in Handles :
        /\ comp = "observed"
        /\ ~o_live[h] /\ o_live[g]
        /\ ObStore(ob_move_ctor(ObWorld, h, g))
        /\ o_call' = "move_ctor"
        /\ UNCHANGED observedFrame

\* h = std::move(g);
ObMoveAssign ==
    \E h, g \in Handles :
        /\ comp = "observed"
        /\ o_live[h] /\ o_live[g]
        /\ ObStore(ob_move_assign(ObWorld, h, g))
        /\ o_call' = "move_assign"
        /\ UNCHANGED observedFrame

\* h.reset();
ObResetNull ==
    \E h \in Handles :
        /\ comp = "observed"
        /\ o_live[h]
        /\ ObStore(ob_reset(ObWorld, h, Null))
        /\ o_call' = "reset"
        /\ UNCHANGED observedFrame

\* h.reset(new T{...});
ObResetFresh ==
    \E h \in Handles :
        /\ comp = "observed"
        /\ o_live[h]
        /\ o_nObj < MaxObjs
        /\ LET w == ob_new_obj(ObWorld)
           IN  /\ ObStore(ob_reset(w, h, w.nObj))
               /\ o_call' = "reset"
        /\ UNCHANGED observedFrame

\* h.reset(h.get_ptr());   for a non-empty h; reset allocates a block
ObResetOwn ==
    \E h \in Handles :
        /\ comp = "observed"
        /\ o_live[h] /\ o_ptr[h] # Null
        /\ o_nBlk < MaxObjs
        /\ ObStore(ob_reset(ObWorld, h, o_ptr[h]))
        /\ o_call' = "reset_own"
        /\ UNCHANGED observedFrame

\* new observed_ref<T>{g};   for a non-empty g
ObCopyDetached ==
    \E g \in Handles :
        /\ comp = "observed"
        /\ o_live[g] /\ o_ptr[g] # Null
        /\ ObStore(ob_copy_detached(ObWorld, g))
        /\ o_call' = "copy_detached"
        /\ UNCHANGED observedFrame

\* h goes out of scope
ObDestroy ==
    \E h \in Handles :
        /\ comp = "observed"
        /\ o_live[h]
        /\ ObStore(ob_dtor(ObWorld, h))
        /\ o_call' = "dtor"
        /\ UNCHANGED observedFrame

\* the weak-style aliases the client holds: each is registered on a block
RECURSIVE WeakHeldUpTo(_)
WeakHeldUpTo(b) == IF b = 0 THEN 0 ELSE o_weak[b] + WeakHeldUpTo(b - 1)
WeakHeld == WeakHeldUpTo(MaxObjs)

\* a weak-style alias is registered on the block of a non-empty handle:
\* const_cast<ref_counter_t*>(h.get_ref_counter())->inc_weak_ref()
ObWeakAcquire ==
    \E h \in Handles :
        /\ comp = "observed"
        /\ o_live[h] /\ o_blk[h] # Null
        /\ WeakHeld < MaxWeak
        /\ ObStore(rc_inc_weak_ref(ObWorld, o_blk[h]))
        /\ o_call' = "inc_weak"
        /\ UNCHANGED observedFrame

\* a weak-style alias lets go of the block it registered on: dec_weak_ref()
ObWeakRelease ==
    \E b \in Blocks :
        /\ comp = "observed"
        /\ b <= o_nBlk /\ o_blkFrees[b] = 0
        /\ o_weak[b] > 0
        /\ ObStore(rc_dec_weak_ref(ObWorld, b))
        /\ o_call' = "dec_weak"
        /\ UNCHANGED observedFrame

NextObserved ==
    \/ ObConstruct
    \/ ObConstructEmpty
    \/ ObCopyConstruct
    \/ ObCopyAssign
    \/ ObMoveConstruct
    \/ ObMoveAssign
    \/ ObResetNull
    \/ ObResetFresh
    \/ ObDestroy
    \/ ObWeakAcquire
    \/ ObWeakRelease

\* ------------------------------------------------------------ unique_ref
UnWorld ==
    [ptr |-> u_ptr, live |-> u_live, objFrees |-> u_objFrees, nObj |-> u_nObj]

UnStore(w) ==
    /\ u_ptr' = w.ptr
    /\ u_live' = w.live
    /\ u_objFrees' = w.objFrees
    /\ u_nObj' = w.nObj

\* `delete _ptr`: deleting nullptr does nothing
un_delete(w, p) ==
    IF p = Null THEN w ELSE [w EXCEPT !.objFrees[p] = @ + 1]

\* unique_ref::unique_ref(T_* ptr), and the default constructor for ptr = nullptr
un_ctor(w, h, p) == [w EXCEPT !.ptr[h] = p, !.live[h] = TRUE]

\* unique_ref::~unique_ref
un_dtor(w, h) ==
    [un_delete(w, w.ptr[h]) EXCEPT !.ptr[h] = Null, !.live[h] = FALSE]

\* unique_ref::release, the value it returns
un_release_result(w, h) == w.ptr[h]

un_release_keeps_pointer(w, h) == w

\* unique_ref::release, its effect on the handle
un_release(w, h) == [w EXCEPT !.ptr[h] = Null]

un_move_ctor_keeps_source(w, h, g) ==
    [w EXCEPT !.ptr[h] = un_release_result(w, g), !.live[h] = TRUE]

\* unique_ref::unique_ref(unique_ref&& other)
un_move_ctor(w, h, g) ==
    LET p  == un_release_result(w, g)
        w1 == un_release(w, g)
    IN  [w1 EXCEPT !.ptr[h] = p, !.live[h] = TRUE]

un_move_assign_keeps_old_pointee(w, h, g) ==
    IF g # h
    THEN LET p  == un_release_result(w, g)
             w2 == un_release(w, g)
         IN  [w2 EXCEPT !.ptr[h] = p]
    ELSE w

\* unique_ref::operator=(unique_ref&& other)
un_move_assign(w, h, g) ==
    IF g # h
    THEN LET w1 == un_delete(w, w.ptr[h])
             p  == un_release_result(w1, g)
             w2 == un_release(w1, g)
         IN  [w2 EXCEPT !.ptr[h] = p]
    ELSE w

un_reset_no_self_check(w, h, p) ==
    [un_delete(w, w.ptr[h]) EXCEPT !.ptr[h] = p]

\* unique_ref::reset(T_* ptr)
un_reset(w, h, p) ==
    IF p # w.ptr[h]
    THEN [un_delete(w, w.ptr[h]) EXCEPT !.ptr[h] = p]
    ELSE w

\* unique_ref::get
un_get(w, h) == w.ptr[h]

\* unique_ref::operator bool
un_bool(w, h) == w.ptr[h] # Null

\* `new T{...}` by the client (or by build_unique)
un_new_obj(w) == [w EXCEPT !.nObj = @ + 1]

UnCall(op, ret) == [op |-> op, ret |-> ret]

UnInit ==
    /\ u_ptr = [h \in Handles |-> Null]
    /\ u_live = [h \in Handles |-> FALSE]
    /\ u_objFrees = [o \in Objs |-> 0]
    /\ u_nObj = 0
    /\ u_raw = {}
    /\ u_released = {}
    /\ u_call = UnCall("none", Null)

\* unique_ref<T> h{new T{...}}   (build_unique<T>(...))
UnConstruct ==
    \E h \in Handles :
        /\ comp = "unique"
        /\ ~u_live[h]
        /\ u_nObj < MaxObjs
        /\ LET w == un_new_obj(UnWorld)
           IN  /\ UnStore(un_ctor(w, h, w.nObj))
               /\ u_call' = UnCall("ctor", Null)
        /\ UNCHANGED <<u_raw, u_released>>
        /\ UNCHANGED uniqueFrame

\* unique_ref<T> h;
UnConstructEmpty ==
    \E h \in Handles :
        /\ comp = "unique"
        /\ ~u_live[h]
        /\ UnStore(un_ctor(UnWorld, h, Null))
        /\ u_call' = UnCall("ctor", Null)
        /\ UNCHANGED <<u_raw, u_released>>
        /\ UNCHANGED uniqueFrame

\* unique_ref<T> h{p};  with p a pointer an earlier release() returned
UnConstructReleased ==
    \E h \in Handles, p \in u_raw :
        /\ comp = "unique"
        /\ ~u_live[h]
        /\ UnStore(un_ctor(UnWorld, h, p))
        /\ u_raw' = u_raw \ {p}
        /\ u_call' = UnCall("ctor", Null)
        /\ UNCHANGED u_released
        /\ UNCHANGED uniqueFrame

\* unique_ref<T> h{std::move(g)};
UnMoveConstruct ==
    \E h, g \in Handles :
        /\ comp = "unique"
        /\ ~u_live[h] /\ u_live[g]
        /\ UnStore(un_move_ctor(UnWorld, h, g))
        /\ u_call' = UnCall("move_ctor", Null)
        /\ UNCHANGED <<u_raw, u_released>>
        /\ UNCHANGED uniqueFrame

\* h = std::move(g);   (h and g may be the same handle)
UnMoveAssign ==
    \E h, g \in Handles :
        /\ comp = "unique"
        /\ u_live[h] /\ u_live[g]
        /\ UnStore(un_move_assign(UnWorld, h, g))
        /\ u_call' = UnCall("move_assign", Null)
        /\ UNCHANGED <<u_raw, u_released>>
        /\ UNCHANGED uniqueFrame

\* T* p = h.release();   the client keeps p
UnRelease ==
    \E h \in Handles :
        /\ comp = "unique"
        /\ u_live[h]
        /\ LET ret == un_release_result(UnWorld, h)
           IN  /\ UnStore(un_release(UnWorld, h))
               /\ u_raw' = u_raw \cup ({ret} \ {Null})
               /\ u_released' = u_released \cup ({ret} \ {Null})
               /\ u_call' = UnCall("release", ret)
        /\ UNCHANGED uniqueFrame

\* h.reset();
UnResetNull ==
    \E h \in Handles :
        /\ comp = "unique"
        /\ u_live[h]
        /\ UnStore(un_reset(UnWorld, h, Null))
        /\ u_call' = UnCall("reset", Null)
        /\ UNCHANGED <<u_raw, u_released>>
        /\ UNCHANGED uniqueFrame

\* h.reset(new T{...});
UnResetFresh ==
    \E h \in Handles :
        /\ comp = "unique"
        /\ u_live[h]
        /\ u_nObj < MaxObjs
        /\ LET w == un_new_obj(UnWorld)
           IN  /\ UnStore(un_reset(w, h, w.nObj))
               /\ u_call' = UnCall("reset", Null)
        /\ UNCHANGED <<u_raw, u_released>>
        /\ UNCHANGED uniqueFrame

\* h.reset(p);  with p a pointer an earlier release() returned
UnResetReleased ==
    \E h \in Handles, p \in u_raw :
        /\ comp = "unique"
        /\ u_live[h]
        /\ UnStore(un_reset(UnWorld, h, p))
        /\ u_raw' = u_raw \ {p}
        /\ u_call' = UnCall("reset", Null)
        /\ UNCHANGED u_released
        /\ UNCHANGED uniqueFrame

\* h.reset(h.get());
UnResetSelf ==
    \E h \in Handles :
        /\ comp = "unique"
        /\ u_live[h] /\ u_ptr[h] # Null
        /\ UnStore(un_reset(UnWorld, h, un_get(UnWorld, h)))
        /\ u_call' = UnCall("reset", Null)
        /\ UNCHANGED <<u_raw, u_released>>
        /\ UNCHANGED uniqueFrame

\* h goes out of scope
UnDestroy ==
    \E h \in Handles :
        /\ comp = "unique"
        /\ u_live[h]
        /\ UnStore(un_dtor(UnWorld, h))
        /\ u_call' = UnCall("dtor", Null)
        /\ UNCHANGED <<u_raw, u_released>>
        /\ UNCHANGED uniqueFrame

NextUnique ==
    \/ UnConstruct
    \/ UnConstructEmpty
    \/ UnConstructReleased
    \/ UnMoveConstruct
    \/ UnMoveAssign
    \/ UnRelease
    \/ UnResetNull
    \/ UnResetFresh
    \/ UnResetReleased
    \/ UnResetSelf
    \/ UnDestroy

vars == <<comp, sharedVars, observedVars, uniqueVars, counterVars>>

Components == {"shared", "observed", "unique", "counter"}

\* nothing constructed yet, in any component
InitAll ==
    /\ ShInit
    /\ ObInit
    /\ UnInit
    /\ CtInit

\* a client of any one of the four classes
Init ==
    /\ comp \in Components
    /\ InitAll

Next ==
    \/ NextShared
    \/ NextObserved
    \/ NextUnique
    \/ NextCounter

Spec == Init /\ [][Next]_vars

\* a client of shared_ref
InitShared == comp = "shared" /\ InitAll
SpecShared == InitShared /\ [][NextShared]_vars

\* a client of observed_ref
InitObserved == comp = "observed" /\ InitAll
SpecObserved == InitObserved /\ [][NextObserved]_vars

\* a client of unique_ref
InitUnique == comp = "unique" /\ InitAll
SpecUnique == InitUnique /\ [][NextUnique]_vars

\* a client of safe_u64
InitCounter == comp = "counter" /\ InitAll
SpecCounter == InitCounter /\ [][NextCounter]_vars

\* a client of shared_ref or of observed_ref
InitRefs == comp \in {"shared", "observed"} /\ InitAll
NextRefs ==
    \/ NextShared
    \/ NextObserved
SpecRefs == InitRefs /\ [][NextRefs]_vars

\* a client of any one of the three handle classes
InitHandles == comp \in {"shared", "observed", "unique"} /\ InitAll
NextHandles ==
    \/ NextShared
    \/ NextObserved
    \/ NextUnique
SpecHandles == InitHandles /\ [][NextHandles]_vars

\* a client that shares one allocation among handles and heap-allocated copies:
\* it wraps one fresh pointer, copies handles, and drops them
InitCopies == comp \in {"shared", "observed"} /\ InitAll
NextCopies ==
    \/ s_nObj = 0 /\ ShConstruct
    \/ ShCopyConstruct
    \/ ShCopyAssign
    \/ ShCopyDetached
    \/ ShResetNull
    \/ ShDestroy
    \/ o_nObj = 0 /\ ObConstruct
    \/ ObCopyConstruct
    \/ ObCopyAssign
    \/ ObCopyDetached
    \/ ObResetNull
    \/ ObDestroy
SpecCopies == InitCopies /\ [][NextCopies]_vars

\* a client that also passes a handle's own pointer to reset; every counter
\* cell and block comes from the same bounded heap
InitResetOwn == comp \in {"shared", "observed"} /\ InitAll
NextResetOwn ==
    \/ s_nCell < MaxObjs /\ ShConstruct
    \/ ShCopyConstruct
    \/ ShResetOwn
    \/ ShResetNull
    \/ ShDestroy
    \/ o_nBlk < MaxObjs /\ ObConstruct
    \/ ObCopyConstruct
    \/ ObResetOwn
    \/ ObResetNull
    \/ ObDestroy
SpecResetOwn == InitResetOwn /\ [][NextResetOwn]_vars

\* ================================================================ claims

\* live handles of each family that alias a pointee, a cell or a block
ShOwnersOf(o) == {h \in Handles : s_live[h] /\ s_ptr[h] = o}
ShHoldersOf(c) == {h \in Handles : s_live[h] /\ s_cnt[h] = c}
ObHoldersOf(b) == {h \in Handles : o_live[h] /\ o_blk[h] = b}
UnOwnersOf(o) == {h \in Handles : u_live[h] /\ u_ptr[h] = o}

\* C1: every live non-empty shared_ref holds a live counter cell; handles that
\* alias the same pointee hold the same cell; and the cell's value (which is
\* what get_shared_ref_count reports) is the number of live handles aliasing
\* the allocation.
C1_SharedCountInvariant ==
    comp = "shared" =>
        \A h \in Handles :
            (s_live[h] /\ s_ptr[h] # Null) =>
                /\ s_cnt[h] # Null
                /\ s_cellFrees[s_cnt[h]] = 0
                /\ \A g \in ShOwnersOf(s_ptr[h]) : s_cnt[g] = s_cnt[h]
                /\ ShHoldersOf(s_cnt[h]) = ShOwnersOf(s_ptr[h])
                /\ s_cell[s_cnt[h]] = Cardinality(ShOwnersOf(s_ptr[h]))
                /\ sh_get_shared_ref_count(ShWorld, h) = Cardinality(ShOwnersOf(s_ptr[h]))

\* C1 witness: a copy-assignment has just made three live handles share one cell
C1_Witness ==
    /\ comp = "shared"
    /\ s_call = "copy_assign"
    /\ \E h \in Handles :
        /\ s_live[h] /\ s_ptr[h] # Null
        /\ Cardinality(ShOwnersOf(s_ptr[h])) = 3
        /\ s_cell[s_cnt[h]] = 3

\* C2: a pointee wrapped in a shared_ref is not freed while a live handle
\* aliases it, and once no live handle aliases it (the last alias was reset or
\* destroyed) it has been freed exactly once.
C2_SharedFreedExactlyOnce ==
    comp = "shared" =>
        \A o \in Objs :
            o <= s_nObj =>
                IF ShOwnersOf(o) # {} THEN s_objFrees[o] = 0 ELSE s_objFrees[o] = 1

\* C3: from every reachable state, destroying a live shared_ref and calling
\* reset(nullptr) on it give the same counter values, the same freed pointees
\* and counter cells, and the same state of every other handle.
C3_DestroyEquivalentToResetNull ==
    comp = "shared" =>
        \A h \in Handles :
            s_live[h] =>
                LET d == sh_dtor(ShWorld, h)
                    r == sh_reset(ShWorld, h, Null)
                IN  /\ d.cell = r.cell
                    /\ d.objFrees = r.objFrees
                    /\ d.cellFrees = r.cellFrees
                    /\ \A g \in Handles \ {h} :
                        /\ d.ptr[g] = r.ptr[g]
                        /\ d.cnt[g] = r.cnt[g]
                        /\ d.live[g] = r.live[g]

\* C4: every live non-empty observed_ref holds a live block, and the strong
\* count of that block is the number of live observed_ref handles aliasing it.
C4_ObservedStrongCountInvariant ==
    comp = "observed" =>
        \A h \in Handles :
            (o_live[h] /\ o_ptr[h] # Null) =>
                /\ o_blk[h] # Null
                /\ o_blkFrees[o_blk[h]] = 0
                /\ \A g \in Handles : (o_live[g] /\ o_ptr[g] = o_ptr[h]) => o_blk[g] = o_blk[h]
                /\ rc_get_strong_count(ObWorld, o_blk[h]) = Cardinality(ObHoldersOf(o_blk[h]))

\* C4 witness: one handle was copied twice, the strong count is 3
C4_Witness ==
    /\ comp = "observed"
    /\ o_call = "copy_ctor"
    /\ \E h \in Handles :
        /\ o_live[h] /\ o_blk[h] # Null
        /\ Cardinality(ObHoldersOf(o_blk[h])) = 3
        /\ o_strong[o_blk[h]] = 3

\* the step just taken was h.reset(), h.reset(new T{...}) or the destruction of
\* h, for a non-empty observed_ref h
ObReleaseStep(h) ==
    /\ comp = "observed"
    /\ o_live[h] /\ o_ptr[h] # Null
    /\ \/ o_call' = "dtor" /\ ObStore(ob_dtor(ObWorld, h))
       \/ o_call' = "reset" /\ ObStore(ob_reset(ObWorld, h, Null))
       \/ /\ o_call' = "reset"
          /\ o_nObj < MaxObjs
          /\ ObStore(ob_reset(ob_new_obj(ObWorld), h, o_nObj + 1))

\* C5: a reset or destruction of a non-empty observed_ref lowers the strong
\* count by one; it frees the pointee in that step iff the strong count
\* reaches zero, and never a second time; it frees the block in that step iff
\* the strong count reached zero and the weak count is zero; with a weak count
\* above zero the block stays allocated with strong = 0; nothing else is freed.
C5_ObservedRelease ==
    [][o_call' \in {"reset", "dtor"} =>
       \A h \in Handles :
        ObReleaseStep(h) =>
            LET p == o_ptr[h]
                b == o_blk[h]
            IN  /\ o_strong'[b] = o_strong[b] - 1
                /\ o_objFrees'[p] = o_objFrees[p] + (IF o_strong'[b] = 0 THEN 1 ELSE 0)
                /\ o_objFrees'[p] <= 1
                /\ o_blkFrees'[b] =
                       o_blkFrees[b] + (IF o_strong'[b] = 0 /\ o_weak[b] = 0 THEN 1 ELSE 0)
                /\ (o_strong'[b] = 0 /\ o_weak[b] > 0) =>
                       (o_blkFrees'[b] = 0 /\ o_weak'[b] = o_weak[b])
                /\ \A q \in Objs \ {p} : o_objFrees'[q] = o_objFrees[q]
                /\ \A c \in Blocks \ {b} : o_blkFrees'[c] = o_blkFrees[c]
    ]_vars

\* C5 witness: the last owner was destroyed while a weak alias held the block:
\* the pointee is freed, the block is alive with strong = 0 and weak > 0
C5_Witness ==
    /\ comp = "observed"
    /\ o_call = "dtor"
    /\ \E b \in Blocks :
        /\ b <= o_nBlk
        /\ o_strong[b] = 0 /\ o_weak[b] > 0 /\ o_blkFrees[b] = 0
        /\ ObHoldersOf(b) = {}
    /\ \E p \in Objs : o_objFrees[p] = 1

MoveOps == {"move_ctor", "move_assign"}

\* the step just taken moved shared_ref g into a different handle h
ShMoveStep(h, g) ==
    /\ comp = "shared"
    /\ h # g /\ s_live[g]
    /\ \/ s_call' = "move_ctor" /\ ~s_live[h] /\ ShStore(sh_move_ctor(ShWorld, h, g))
       \/ s_call' = "move_assign" /\ s_live[h] /\ ShStore(sh_move_assign(ShWorld, h, g))

\* the step just taken moved observed_ref g into a different handle h
ObMoveStep(h, g) ==
    /\ comp = "observed"
    /\ h # g /\ o_live[g]
    /\ \/ o_call' = "move_ctor" /\ ~o_live[h] /\ ObStore(ob_move_ctor(ObWorld, h, g))
       \/ o_call' = "move_assign" /\ o_live[h] /\ ObStore(ob_move_assign(ObWorld, h, g))

\* the shares the destination gave up in the move: one when it was a live
\* handle that already aliased the source's allocation, else none
ShMoveDropped(h, g) ==
    IF s_live[h] /\ s_ptr[g] # Null /\ s_ptr[h] = s_ptr[g] THEN 1 ELSE 0

ObMoveDropped(h, g) ==
    IF o_live[h] /\ o_ptr[g] # Null /\ o_ptr[h] = o_ptr[g] THEN 1 ELSE 0

\* after a move of shared_ref g into h: g is empty with count 0, h holds g's
\* pointer, and the count of that allocation is the count before less `dropped`
ShMovePost(h, g, dropped) ==
    /\ ~sh_bool(ShWorld', g)
    /\ sh_get_shared_ref_count(ShWorld', g) = 0
    /\ s_live'[h] /\ s_live'[g]
    /\ s_ptr'[h] = s_ptr[g]
    /\ s_ptr[g] # Null =>
           /\ s_cnt'[h] = s_cnt[g]
           /\ sh_get_shared_ref_count(ShWorld', h) = s_cell[s_cnt[g]] - dropped

ObMovePost(h, g, dropped) ==
    /\ ~ob_bool(ObWorld', g)
    /\ ob_strong_count(ObWorld', g) = 0
    /\ o_live'[h] /\ o_live'[g]
    /\ o_ptr'[h] = o_ptr[g]
    /\ o_ptr[g] # Null =>
           /\ o_blk'[h] = o_blk[g]
           /\ ob_strong_count(ObWorld', h) = o_strong[o_blk[g]] - dropped

\* C6 as stated: after a move of h1 into a different handle h2 (shared_ref or
\* observed_ref), h1 is empty with count 0, h2 holds the pointer h1 held, and
\* the reference count of that allocation is the same as before the move.
C6_MoveKeepsCount ==
    [][/\ s_call' \in MoveOps =>
           \A h, g \in Handles : ShMoveStep(h, g) => ShMovePost(h, g, 0)
       /\ o_call' \in MoveOps =>
           \A h, g \in Handles : ObMoveStep(h, g) => ObMovePost(h, g, 0)]_vars

\* C6 amended: as C6, except that a move-assignment into a handle that already
\* aliased the source's allocation lowers the reference count by one (the
\* destination's own share is released before it takes over the source's).
C6_MoveKeepsCountUnlessAliased ==
    [][/\ s_call' \in MoveOps =>
           \A h, g \in Handles :
               ShMoveStep(h, g) => ShMovePost(h, g, ShMoveDropped(h, g))
       /\ o_call' \in MoveOps =>
           \A h, g \in Handles :
               ObMoveStep(h, g) => ObMovePost(h, g, ObMoveDropped(h, g))]_vars

\* C6 witness: a move-assignment has just run and left a live empty handle next
\* to a live handle whose allocation has two owners
C6_Witness ==
    /\ comp = "shared"
    /\ s_call = "move_assign"
    /\ \E h, g \in Handles :
        /\ h # g /\ s_live[h] /\ s_live[g]
        /\ s_ptr[g] = Null /\ s_cnt[g] = Null
        /\ s_ptr[h] # Null
        /\ sh_get_shared_ref_count(ShWorld, h) = 2

\* C7: at most one live unique_ref points at any given allocation.
C7_UniqueInvariant ==
    comp = "unique" =>
        \A o \in Objs : Cardinality(UnOwnersOf(o)) <= 1

\* C7 witness: a move-assignment has just run, and two live handles own two
\* different pointees next to a live handle the move left empty
C7_Witness ==
    /\ comp = "unique"
    /\ u_call.op = "move_assign"
    /\ \E h, k, g \in Handles :
        /\ u_live[h] /\ u_live[k] /\ u_live[g]
        /\ u_ptr[h] # Null /\ u_ptr[k] # Null /\ u_ptr[h] # u_ptr[k]
        /\ u_ptr[g] = Null

\* the step just taken was h.release()
UnReleaseStep(h) ==
    /\ comp = "unique"
    /\ u_live[h]
    /\ u_call'.op = "release"
    /\ UnStore(un_release(UnWorld, h))

\* C8: release() returns the pointer the handle held, leaves the handle empty
\* and frees nothing, every other handle unchanged (on an empty handle it
\* returns null and changes nothing); and a pointee that release() handed out
\* is unfreed while the client or a handle holds it and has been freed exactly
\* once when it was wrapped again and no handle holds it any more.
C8_ReleaseRoundTrip ==
    /\ [][\A h \in Handles :
            UnReleaseStep(h) =>
                /\ u_call'.ret = u_ptr[h]
                /\ u_ptr'[h] = Null
                /\ u_live'[h]
                /\ u_objFrees' = u_objFrees
                /\ \A g \in Handles \ {h} : u_ptr'[g] = u_ptr[g] /\ u_live'[g] = u_live[g]
                /\ u_ptr[h] # Null => u_ptr[h] \in u_raw'
                /\ u_ptr[h] = Null => (u_ptr' = u_ptr /\ u_raw' = u_raw)
       ]_vars
    /\ [](comp = "unique" =>
            \A o \in u_released :
                IF o \in u_raw \/ UnOwnersOf(o) # {}
                THEN u_objFrees[o] = 0
                ELSE u_objFrees[o] = 1)

\* C8 witness: a released pointee was wrapped again, every handle has been
\* destroyed, and the pointee was freed once
C8_Witness ==
    /\ comp = "unique"
    /\ u_call.op = "dtor"
    /\ \A h \in Handles : ~u_live[h]
    /\ u_raw = {}
    /\ \E o \in u_released : u_objFrees[o] = 1

MutatingOps ==
    {"pre_inc", "post_inc", "pre_dec", "post_dec",
     "add_assign_u64", "sub_assign_u64", "mul_assign_u64", "div_assign_u64",
     "add_assign_i32", "sub_assign_i32", "mul_assign_i32", "div_assign_i32"}

\* C9: every mutating operator of safe_u64 either returns with a magnitude in
\* 0..U64_MAX stored, or throws NumOverflow, NumUnderflow or DivideByZero with
\* the stored magnitude exactly as before the call.
C9_FailureAtomic ==
    (comp = "counter" /\ c_call.op \in MutatingOps) =>
        \/ c_call.err = NoErr /\ c_size \in U64
        \/ /\ c_call.err \in {NumOverflow, NumUnderflow, DivideByZero}
           /\ c_size = c_call.pre

\* C9 witness: += with an unsigned operand has thrown NumOverflow on a non-zero counter
C9_Witness ==
    /\ comp = "counter"
    /\ c_call.op = "add_assign_u64"
    /\ c_call.err = NumOverflow
    /\ c_call.pre > 0
    /\ c_size = c_call.pre

\* the result of the last operator in unbounded arithmetic (-1: undefined)
MathResult ==
    LET a == c_call.pre
        b == c_call.rhs
    IN  CASE c_call.op \in {"add_assign_u64", "add_u64"} -> a + b
          [] c_call.op \in {"sub_assign_u64", "sub_u64"} -> a - b
          [] c_call.op \in {"mul_assign_u64", "mul_u64"} -> a * b
          [] c_call.op \in {"div_assign_u64", "div_u64"} -> IF b # 0 THEN a \div b ELSE -1
          [] OTHER -> -1

\* C10: for unsigned a and b, when a+b, a-b, a*b or floor(a/b) (b # 0) lies in
\* 0..U64_MAX, the operator (binary or compound-assignment form) does not throw
\* and yields exactly that value; the compound form stores it, the binary form
\* leaves the counter as it was.
C10_MatchesUnbounded ==
    (comp = "counter" /\ MathResult \in U64) =>
        /\ c_call.err = NoErr
        /\ c_call.ret = MathResult
        /\ c_call.op \in MutatingOps => c_size = MathResult
        /\ c_call.op \notin MutatingOps => c_size = c_call.pre

\* C10 witness: a multiplication of two factors above 1 has returned exactly
\* U64_MAX - 1, the largest even magnitude, without throwing
C10_Witness ==
    /\ comp = "counter"
    /\ c_call.op = "mul_assign_u64"
    /\ c_call.rhs > 1 /\ c_call.pre > 1
    /\ c_call.err = NoErr
    /\ c_size = c_call.pre * c_call.rhs
    /\ c_size = U64_MAX - 1

\* C11: an operator that multiplies the counter by a negative i32_t throws
\* NumOverflow, one that divides it by a negative i32_t throws DivideByZero,
\* whatever the magnitude, and the stored magnitude is left as it was.
C11_NegativeMulDivFails ==
    (comp = "counter" /\ c_call.rhs < 0) =>
        /\ c_call.op \in {"mul_assign_i32", "mul_i32", "i32_mul"} =>
               (c_call.err = NumOverflow /\ c_size = c_call.pre)
        /\ c_call.op = "div_assign_i32" =>
               (c_call.err = DivideByZero /\ c_size = c_call.pre)

\* C12: ++ on a counter at U64_MAX throws NumOverflow and -- on a counter at
\* zero throws NumUnderflow; otherwise the magnitude changes by exactly 1, the
\* prefix form returns the new value and the postfix form the value held
\* before the call.
C12_IncrementDecrement ==
    comp = "counter" =>
        /\ c_call.op \in {"pre_inc", "post_inc"} =>
               IF c_call.pre = U64_MAX
               THEN c_call.err = NumOverflow
               ELSE /\ c_call.err = NoErr
                    /\ c_size = c_call.pre + 1
                    /\ c_call.ret = (IF c_call.op = "pre_inc" THEN c_call.pre + 1 ELSE c_call.pre)
        /\ c_call.op \in {"pre_dec", "post_dec"} =>
               IF c_call.pre = 0
               THEN c_call.err = NumUnderflow
               ELSE /\ c_call.err = NoErr
                    /\ c_size = c_call.pre - 1
                    /\ c_call.ret = (IF c_call.op = "pre_dec" THEN c_call.pre - 1 ELSE c_call.pre)

\* C12 witness: a postfix decrement has taken the counter from 1 to 0 and
\* returned 1
C12_Witness ==
    /\ comp = "counter"
    /\ c_call.op = "post_dec"
    /\ c_call.err = NoErr
    /\ c_call.pre = 1 /\ c_call.ret = 1
    /\ c_size = 0

\* the operators that add an i32_t to the counter, and those that subtract one
SignedAddOps == {"add_assign_i32", "add_i32", "i32_add"}
SignedSubOps == {"sub_assign_i32", "sub_i32"}

\* the last operator returned v: a compound assignment has stored it, a binary
\* operator has left the counter as it was
SignedYields(v) ==
    /\ c_call.err = NoErr
    /\ c_call.ret = v
    /\ c_size = (IF c_call.op \in MutatingOps THEN v ELSE c_call.pre)

\* the last operator threw e and left the counter as it was
SignedFails(e) == c_call.err = e /\ c_size = c_call.pre

\* C13: for every magnitude a and every i32_t k (I32_MIN included): with k < 0,
\* a + k yields a - |k| and throws NumUnderflow when a < |k|, and a - k yields
\* a + |k| and throws NumOverflow when a + |k| > U64_MAX; with k >= 0 they are
\* the unsigned addition and subtraction of k.
C13_SignedAddSubtract ==
    comp = "counter" =>
        LET a == c_call.pre
            k == c_call.rhs
            m == IF k < 0 THEN -k ELSE k
            down == (c_call.op \in SignedAddOps) = (k < 0)
        IN  c_call.op \in (SignedAddOps \cup SignedSubOps) =>
                IF down
                THEN IF a < m THEN SignedFails(NumUnderflow) ELSE SignedYields(a - m)
                ELSE IF a + m > U64_MAX THEN SignedFails(NumOverflow) ELSE SignedYields(a + m)

\* C13 witness: I32_MIN was subtracted from a non-zero counter, which grew by
\* |I32_MIN|
C13_Witness ==
    /\ comp = "counter"
    /\ c_call.op = "sub_assign_i32"
    /\ c_call.rhs = I32_MIN
    /\ c_call.err = NoErr
    /\ c_call.pre > 0
    /\ c_size = c_call.pre - I32_MIN

\* the truth value of the mathematical comparison the last comparison
\* operator stands for, between the counter's magnitude a and the integer b
MathCompare ==
    LET a == c_call.pre
        b == c_call.rhs
    IN  CASE c_call.op = "eq_i32" -> a = b
          [] c_call.op = "ne_i32" -> a # b
          [] c_call.op = "lt_i32" -> a < b
          [] c_call.op = "gt_i32" -> a > b
          [] c_call.op = "le_i32" -> a <= b
          [] c_call.op = "ge_i32" -> a >= b
          [] c_call.op = "i32_eq" -> b = a
          [] c_call.op = "i32_ne" -> b # a
          [] c_call.op = "i32_lt" -> b < a
          [] c_call.op = "i32_gt" -> b > a
          [] c_call.op = "i32_le" -> b <= a
          [] c_call.op = "i32_ge" -> b >= a

CompareOps ==
    {"eq_i32", "ne_i32", "lt_i32", "gt_i32", "le_i32", "ge_i32",
     "i32_eq", "i32_ne", "i32_lt", "i32_gt", "i32_le", "i32_ge"}

\* C14: each of ==, !=, <, >, <=, >= between a counter and an i32_t, in both
\* operand orders, never throws, leaves the counter as it was and returns the
\* truth value of the mathematical comparison of the magnitude and the
\* integer, negative integers included.
C14_CompareWithInteger ==
    (comp = "counter" /\ c_call.op \in CompareOps) =>
        /\ c_call.err = NoErr
        /\ c_size = c_call.pre
        /\ c_call.ret = MathCompare

\* C15: no constructor throws; safe_u64(i32_t) stores 0 for a negative
\* argument and the argument itself otherwise, safe_u64(u64_t) stores its
\* argument, and the conversion to u64_t returns the stored magnitude and
\* leaves it as it was.
C15_Construction ==
    comp = "counter" =>
        /\ c_call.op = "ctor_i32" =>
               /\ c_call.err = NoErr
               /\ c_size = (IF c_call.rhs < 0 THEN 0 ELSE c_call.rhs)
        /\ c_call.op = "ctor_u64" =>
               /\ c_call.err = NoErr
               /\ c_size = c_call.rhs
        /\ c_call.op = "to_u64" =>
               /\ c_call.err = NoErr
               /\ c_call.ret = c_call.pre
               /\ c_size = c_call.pre

\* C15 witness: a counter holding a non-zero magnitude was replaced by one
\* constructed from I32_MIN, and holds 0
C15_Witness ==
    /\ comp = "counter"
    /\ c_call.op = "ctor_i32"
    /\ c_call.rhs = I32_MIN
    /\ c_call.pre > 0
    /\ c_size = 0

\* C16: for all u64_t a and b, + and += throw NumOverflow iff a + b > U64_MAX,
\* - and -= throw NumUnderflow iff a < b, * and *= throw NumOverflow iff
\* a * b > U64_MAX, / and /= throw DivideByZero iff b = 0, and throw nothing
\* else; the helper predicates decide exactly these conditions, and the
\* values they compute on the way (U64_MAX - b, U64_MAX / b) are in range.
C16_ExactPreChecks ==
    comp = "counter" =>
        LET a == c_call.pre
            b == c_call.rhs
        IN  /\ c_call.op \in {"add_assign_u64", "add_u64"} =>
                   /\ c_call.err = (IF a + b > U64_MAX THEN NumOverflow ELSE NoErr)
                   /\ is_safe_add_u64(a, b) = (a + b <= U64_MAX)
                   /\ U64_MAX - b \in U64
            /\ c_call.op \in {"sub_assign_u64", "sub_u64"} =>
                   /\ c_call.err = (IF a < b THEN NumUnderflow ELSE NoErr)
                   /\ is_safe_sub_u64(a, b) = (a - b >= 0)
            /\ c_call.op \in {"mul_assign_u64", "mul_u64"} =>
                   /\ c_call.err = (IF a * b > U64_MAX THEN NumOverflow ELSE NoErr)
                   /\ is_safe_mul_u64(a, b) = (a * b <= U64_MAX)
                   /\ b # 0 => (U64_MAX \div b) \in U64
            /\ c_call.op \in {"div_assign_u64", "div_u64"} =>
                   /\ c_call.err = (IF b = 0 THEN DivideByZero ELSE NoErr)
                   /\ is_safe_div_u64(a, b) = (b # 0)

\* C16 witness: a product one above U64_MAX was refused with NumOverflow
C16_Witness ==
    /\ comp = "counter"
    /\ c_call.op = "mul_u64"
    /\ c_call.err = NumOverflow
    /\ c_call.pre * c_call.rhs = U64_MAX + 1
    /\ c_size = c_call.pre

\* C17: every block of an observed_ref that was allocated has been freed once
\* its strong and weak counts are both zero, also when the weak count was
\* raised and lowered directly on the block, and has not been freed while one
\* of the two counts is above zero: a block kept alive with strong = 0 by a
\* weak count is freed when that weak count is lowered to zero.
C17_FullyFreedBlocks ==
    comp = "observed" =>
        \A b \in Blocks :
            b <= o_nBlk =>
                IF rc_get_strong_count(ObWorld, b) = 0 /\ rc_get_weak_count(ObWorld, b) = 0
                THEN o_blkFrees[b] = 1
                ELSE o_blkFrees[b] = 0

\* the step just taken was h.reset(new T{...}) on the live shared_ref h
ShResetFreshStep(h) ==
    /\ comp = "shared"
    /\ s_live[h]
    /\ s_call' = "reset"
    /\ s_nObj < MaxObjs
    /\ ShStore(sh_reset(sh_new_obj(ShWorld), h, s_nObj + 1))

\* the step just taken was h.reset() on the live shared_ref h
ShResetNullStep(h) ==
    /\ comp = "shared"
    /\ s_live[h]
    /\ s_call' = "reset"
    /\ ShStore(sh_reset(ShWorld, h, Null))

ObResetFreshStep(h) ==
    /\ comp = "observed"
    /\ o_live[h]
    /\ o_call' = "reset"
    /\ o_nObj < MaxObjs
    /\ ObStore(ob_reset(ob_new_obj(ObWorld), h, o_nObj + 1))

ObResetNullStep(h) ==
    /\ comp = "observed"
    /\ o_live[h]
    /\ o_call' = "reset"
    /\ ObStore(ob_reset(ObWorld, h, Null))

\* what a reset of shared_ref h does to the allocation h held and to the other
\* handles: the allocation loses the owner h and no other, its count drops by
\* one for the owners that remain, it is freed in this step iff h was its last
\* owner, no other pointee is freed, and no other handle changes
ShResetFrame(h) ==
    LET o == s_ptr[h]
        c == s_cnt[h]
    IN  /\ \A g \in Handles \ {h} :
            s_ptr'[g] = s_ptr[g] /\ s_cnt'[g] = s_cnt[g] /\ s_live'[g] = s_live[g]
        /\ s_live'[h]
        /\ \A q \in Objs \ {o} : s_objFrees'[q] = s_objFrees[q]
        /\ o # Null =>
               /\ s_ptr'[h] # o
               /\ \A g \in ShOwnersOf(o) \ {h} :
                      sh_get_shared_ref_count(ShWorld', g) = s_cell[c] - 1
               /\ s_objFrees'[o] =
                      s_objFrees[o] + (IF ShOwnersOf(o) = {h} THEN 1 ELSE 0)
               /\ s_cellFrees'[c] =
                      s_cellFrees[c] + (IF ShOwnersOf(o) = {h} THEN 1 ELSE 0)

ObResetFrame(h) ==
    LET o == o_ptr[h]
        b == o_blk[h]
    IN  /\ \A g \in Handles \ {h} :
            o_ptr'[g] = o_ptr[g] /\ o_blk'[g] = o_blk[g] /\ o_live'[g] = o_live[g]
        /\ o_live'[h]
        /\ \A q \in Objs \ {o} : o_objFrees'[q] = o_objFrees[q]
        /\ o # Null =>
               /\ o_ptr'[h] # o
               /\ rc_get_strong_count(ObWorld', b) = o_strong[b] - 1
               /\ rc_get_weak_count(ObWorld', b) = o_weak[b]
               /\ o_objFrees'[o] =
                      o_objFrees[o] + (IF ObHoldersOf(b) = {h} THEN 1 ELSE 0)

\* C18: h.reset(p) with a fresh non-null p on a shared_ref or observed_ref
\* leaves h holding p with a newly allocated counter (shared: 1; observed:
\* strong 1, weak 0); h.reset() leaves h empty with no counter and allocates
\* none; in both cases the allocation h held before has lost exactly the owner
\* h, is freed iff h was its last owner, and every other handle is unchanged.
C18_ResetFrame ==
    [][/\ s_call' = "reset" =>
           \A h \in Handles :
               /\ ShResetFreshStep(h) =>
                      /\ s_ptr'[h] = s_nObj + 1
                      /\ s_cnt'[h] = s_nCell + 1 /\ s_nCell' = s_nCell + 1
                      /\ s_cellFrees'[s_cnt'[h]] = 0
                      /\ ShHoldersOf(s_cnt'[h]) = {}
                      /\ sh_get_shared_ref_count(ShWorld', h) = 1
                      /\ ShResetFrame(h)
               /\ ShResetNullStep(h) =>
                      /\ s_ptr'[h] = Null /\ s_cnt'[h] = Null
                      /\ s_nCell' = s_nCell
                      /\ sh_get_shared_ref_count(ShWorld', h) = 0
                      /\ ShResetFrame(h)
       /\ o_call' = "reset" =>
           \A h \in Handles :
               /\ ObResetFreshStep(h) =>
                      /\ o_ptr'[h] = o_nObj + 1
                      /\ o_blk'[h] = o_nBlk + 1 /\ o_nBlk' = o_nBlk + 1
                      /\ o_blkFrees'[o_blk'[h]] = 0
                      /\ ObHoldersOf(o_blk'[h]) = {}
                      /\ rc_get_strong_count(ObWorld', o_blk'[h]) = 1
                      /\ rc_get_weak_count(ObWorld', o_blk'[h]) = 0
                      /\ ObResetFrame(h)
               /\ ObResetNullStep(h) =>
                      /\ o_ptr'[h] = Null /\ o_blk'[h] = Null
                      /\ o_nBlk' = o_nBlk
                      /\ ObResetFrame(h)]_vars

\* C18 witness: a reset has just given a handle a fresh pointee with a count of
\* 1 while the allocation it held before lives on with two other owners
C18_Witness ==
    /\ comp = "shared"
    /\ s_call = "reset"
    /\ \E h, g, k \in Handles :
        /\ g # k /\ h # g /\ h # k
        /\ s_live[h] /\ s_live[g] /\ s_live[k]
        /\ s_ptr[h] # Null /\ s_cell[s_cnt[h]] = 1
        /\ s_ptr[g] # Null /\ s_ptr[g] = s_ptr[k] /\ s_ptr[g] # s_ptr[h]
        /\ s_cell[s_cnt[g]] = 2
        /\ s_objFrees[s_ptr[g]] = 0

\* the pointers the client can pass to reset on the unique_ref h: null, the
\* pointer h holds, a pointer an earlier release() returned, a fresh one
UnResetArgs(h) == {Null, u_ptr[h], u_nObj + 1} \cup u_raw

\* the step just taken was h.reset(p) on the live unique_ref h
UnResetStep(h, p) ==
    /\ comp = "unique"
    /\ u_live[h]
    /\ u_call'.op = "reset"
    /\ \/ /\ p \in {Null, u_ptr[h]}
          /\ UnStore(un_reset(UnWorld, h, p))
          /\ u_raw' = u_raw
       \/ /\ p \in u_raw
          /\ UnStore(un_reset(UnWorld, h, p))
          /\ u_raw' = u_raw \ {p}
       \/ /\ p = u_nObj + 1 /\ u_nObj < MaxObjs
          /\ UnStore(un_reset(un_new_obj(UnWorld), h, p))
          /\ u_raw' = u_raw

\* C19: h.reset(p) on a unique_ref with p different from the pointer h holds
\* frees the pointee h held (if any) in that step, which is then freed exactly
\* once, frees nothing else, and leaves h holding p; with p equal to the
\* pointer h holds it frees nothing and leaves h as it was; no other handle
\* changes.
C19_ExclusiveReset ==
    [][u_call'.op = "reset" =>
       \A h \in Handles : \A p \in UnResetArgs(h) :
           UnResetStep(h, p) =>
               LET o == u_ptr[h]
               IN  /\ \A g \in Handles \ {h} :
                       u_ptr'[g] = u_ptr[g] /\ u_live'[g] = u_live[g]
                   /\ u_live'[h]
                   /\ u_ptr'[h] = p
                   /\ \A q \in Objs \ {o} : u_objFrees'[q] = u_objFrees[q]
                   /\ (p # o /\ o # Null) =>
                          (u_objFrees[o] = 0 /\ u_objFrees'[o] = 1)
                   /\ (p = o /\ o # Null) => u_objFrees'[o] = u_objFrees[o]
    ]_vars

\* C19 witness: a reset has just replaced a handle's pointee: the handle holds
\* an unfreed pointee, the only other allocation has no owner and was freed
\* once, and no other handle is live
C19_Witness ==
    /\ comp = "unique"
    /\ u_call.op = "reset"
    /\ u_nObj = 2 /\ u_raw = {}
    /\ \E h \in Handles :
        /\ u_live[h] /\ u_ptr[h] # Null
        /\ \A g \in Handles \ {h} : ~u_live[g]
        /\ u_objFrees[u_ptr[h]] = 0
        /\ \E o \in Objs \ {u_ptr[h]} : u_objFrees[o] = 1

\* the step just taken moved the live unique_ref g into a different handle h,
\* by move construction of h or by move assignment to the live h
UnMoveStep(h, g) ==
    /\ comp = "unique"
    /\ h # g /\ u_live[g]
    /\ \/ /\ u_call'.op = "move_ctor" /\ ~u_live[h]
          /\ UnStore(un_move_ctor(UnWorld, h, g))
       \/ /\ u_call'.op = "move_assign" /\ u_live[h]
          /\ UnStore(un_move_assign(UnWorld, h, g))

\* C20: a move between distinct unique_ref handles leaves the source empty and
\* the destination holding the source's pointer; a move assignment frees the
\* pointee the destination held before, in that step and exactly once; a move
\* frees nothing else and changes no third handle.  No allocation is ever
\* freed twice, and when no handle is live every allocation the client does
\* not hold as a released raw pointer has been freed exactly once.
C20_ExclusiveMoveAndDestruction ==
    /\ [][u_call'.op \in MoveOps =>
          \A h, g \in Handles :
              UnMoveStep(h, g) =>
                  LET o == u_ptr[h]
                  IN  /\ u_live'[g] /\ u_ptr'[g] = Null
                      /\ u_live'[h] /\ u_ptr'[h] = u_ptr[g]
                      /\ \A k \in Handles \ {h, g} :
                             u_ptr'[k] = u_ptr[k] /\ u_live'[k] = u_live[k]
                      /\ o # Null => (u_objFrees[o] = 0 /\ u_objFrees'[o] = 1)
                      /\ \A q \in Objs \ {o} : u_objFrees'[q] = u_objFrees[q]
       ]_vars
    /\ [](comp = "unique" =>
            /\ \A o \in Objs : u_objFrees[o] <= 1
            /\ (\A h \in Handles : ~u_live[h]) =>
                   \A o \in Objs : (o <= u_nObj /\ o \notin u_raw) => u_objFrees[o] = 1)

\* C20 witness: a move assignment has just run between the only two live
\* handles: the source is empty, the destination holds an unfreed pointee, and
\* the other allocation, which nobody holds, was freed once
C20_Witness ==
    /\ comp = "unique"
    /\ u_call.op = "move_assign"
    /\ u_nObj = 2 /\ u_raw = {} /\ u_released = {}
    /\ \E h, g \in Handles :
        /\ h # g /\ u_live[h] /\ u_live[g]
        /\ \A k \in Handles \ {h, g} : ~u_live[k]
        /\ u_ptr[g] = Null
        /\ u_ptr[h] # Null /\ u_objFrees[u_ptr[h]] = 0
        /\ \E o \in Objs \ {u_ptr[h]} : u_objFrees[o] = 1

CopyOps == {"copy_ctor", "copy_assign", "copy_detached"}

\* what a copy of shared_ref g does to the cell g holds, whose value is v when
\* the copy's _add_owner runs: at the counter maximum the copy fails with
\* NumOverflow and the cell keeps its value; below it the cell goes up by one
ShCopyCounts(g, v) ==
    LET c == s_cnt[g]
    IN  IF v = U64_MAX
        THEN s_fault' = NumOverflow /\ s_cell'[c] = v
        ELSE s_fault' = NoErr /\ s_cell'[c] = v + 1

\* the same for a copy of observed_ref g and the strong count of its block
ObCopyCounts(g, v) ==
    LET b == o_blk[g]
    IN  IF v = U64_MAX
        THEN o_fault' = NumOverflow /\ o_strong'[b] = v
        ELSE o_fault' = NoErr /\ o_strong'[b] = v + 1

\* every copy of a non-empty shared_ref g: by the copy constructor into a slot
\* or onto the heap, or by copy-assignment to another handle h, which gives up
\* h's own share before it adds the new one
ShCopySteps ==
    /\ \A h, g \in Handles :
           (/\ s_call' = "copy_ctor" /\ ~s_live[h] /\ s_live[g] /\ s_ptr[g] # Null
            /\ ShStore(sh_copy_ctor(ShWorld, h, g)))
               => ShCopyCounts(g, s_cell[s_cnt[g]])
    /\ \A g \in Handles :
           (/\ s_call' = "copy_detached" /\ s_live[g] /\ s_ptr[g] # Null
            /\ ShStore(sh_copy_detached(ShWorld, g)))
               => ShCopyCounts(g, s_cell[s_cnt[g]])
    /\ \A h, g \in Handles :
           (/\ s_call' = "copy_assign" /\ h # g /\ s_live[h] /\ s_live[g] /\ s_ptr[g] # Null
            /\ ShStore(sh_copy_assign(ShWorld, h, g)))
               => ShCopyCounts(g, sh_remove_owner(ShWorld, h).cell[s_cnt[g]])

ObCopySteps ==
    /\ \A h, g \in Handles :
           (/\ o_call' = "copy_ctor" /\ ~o_live[h] /\ o_live[g] /\ o_ptr[g] # Null
            /\ ObStore(ob_copy_ctor(ObWorld, h, g)))
               => ObCopyCounts(g, o_strong[o_blk[g]])
    /\ \A g \in Handles :
           (/\ o_call' = "copy_detached" /\ o_live[g] /\ o_ptr[g] # Null
            /\ ObStore(ob_copy_detached(ObWorld, g)))
               => ObCopyCounts(g, o_strong[o_blk[g]])
    /\ \A h, g \in Handles :
           (/\ o_call' = "copy_assign" /\ h # g /\ o_live[h] /\ o_live[g] /\ o_ptr[g] # Null
            /\ ObStore(ob_copy_assign(ObWorld, h, g)))
               => ObCopyCounts(g, ob_remove_owner(ObWorld, h).strong[o_blk[g]])

\* while the program runs (no error has ended it),
\* the count of an allocation is the number of its owners, the live handles
\* and the heap-allocated copies, and stays within the counter's range; an
\* allocation that has an owner has not been freed (this client allocates
\* cells, blocks and pointees together, so the c-th cell governs the c-th pointee)
ShCountsOwners ==
    \A c \in Cells :
        (s_fault = NoErr /\ c <= s_nCell /\ s_cellFrees[c] = 0) =>
            /\ s_cell[c] = Cardinality(ShHoldersOf(c)) + s_detached[c]
            /\ s_cell[c] <= U64_MAX
            /\ (ShHoldersOf(c) # {} \/ s_detached[c] > 0) => s_objFrees[c] = 0

ObCountsOwners ==
    \A b \in Blocks :
        (o_fault = NoErr /\ b <= o_nBlk /\ o_blkFrees[b] = 0) =>
            /\ o_strong[b] = Cardinality(ObHoldersOf(b)) + o_detached[b]
            /\ o_strong[b] <= U64_MAX
            /\ (ObHoldersOf(b) # {} \/ o_detached[b] > 0) => o_objFrees[b] = 0

\* an allocation with an owner never has its cell, block or pointee freed
ShOwnedNotFreed ==
    \A c \in Cells :
        (ShHoldersOf(c) # {} \/ s_detached[c] > 0) =>
            s_cellFrees[c] = 0 /\ s_objFrees[c] = 0

ObOwnedNotFreed ==
    \A b \in Blocks :
        (ObHoldersOf(b) # {} \/ o_detached[b] > 0) =>
            o_blkFrees[b] = 0 /\ o_objFrees[b] = 0

C22_NoUseAfterFreeNoDoubleFree ==
    /\ \A h \in Handles :
           (s_live[h] /\ s_ptr[h] # Null) =>
               /\ s_objFrees[s_ptr[h]] = 0
               /\ s_cnt[h] # Null /\ s_cellFrees[s_cnt[h]] = 0
    /\ \A h \in Handles :
           (o_live[h] /\ o_ptr[h] # Null) =>
               /\ o_objFrees[o_ptr[h]] = 0
               /\ o_blk[h] # Null /\ o_blkFrees[o_blk[h]] = 0
    /\ \A o \in Objs : s_objFrees[o] <= 1 /\ o_objFrees[o] <= 1
    /\ \A c \in Cells : s_cellFrees[c] <= 1
    /\ \A b \in Blocks : o_blkFrees[b] <= 1

\* C22 witness: one pointee and its counter have been freed by a reset, while
\* two live handles still share another pointee, which is not freed
C22_Witness ==
    \/ /\ comp = "shared"
       /\ s_call = "reset"
       /\ \E o, q \in Objs :
           /\ s_objFrees[o] = 1 /\ s_cellFrees[o] = 1
           /\ s_objFrees[q] = 0 /\ Cardinality(ShOwnersOf(q)) = 2
    \/ /\ comp = "observed"
       /\ o_call = "reset"
       /\ \E o, q \in Objs :
           /\ o_objFrees[o] = 1 /\ o_blkFrees[o] = 1
           /\ o_objFrees[q] = 0 /\ Cardinality({h \in Handles : o_live[h] /\ o_ptr[h] = q}) = 2

\* live observed_ref handles that alias a pointee
ObOwnersOf(o) == {h \in Handles : o_live[h] /\ o_ptr[h] = o}

\* C23: reset(p) with p the handle's own pointer is safe for shared_ref and
\* observed_ref: right after it the handle points at a pointee that has not
\* been freed; all live handles aliasing a pointee hold one and the same
\* counter cell or block; and no pointee is freed more than once.
C23_ResetOwnPointerSafe ==
    /\ [][/\ s_call' = "reset_own" =>
              \A h \in Handles :
                  (/\ comp = "shared" /\ s_live[h] /\ s_ptr[h] # Null /\ s_nCell < MaxObjs
                   /\ ShStore(sh_reset(ShWorld, h, s_ptr[h])))
                      => s_ptr'[h] = s_ptr[h] /\ s_objFrees'[s_ptr[h]] = 0
          /\ o_call' = "reset_own" =>
              \A h \in Handles :
                  (/\ comp = "observed" /\ o_live[h] /\ o_ptr[h] # Null /\ o_nBlk < MaxObjs
                   /\ ObStore(ob_reset(ObWorld, h, o_ptr[h])))
                      => o_ptr'[h] = o_ptr[h] /\ o_objFrees'[o_ptr[h]] = 0]_vars
    /\ [](/\ \A o \in Objs : s_objFrees[o] <= 1 /\ o_objFrees[o] <= 1
          /\ \A o \in Objs : \A h, g \in ShOwnersOf(o) : s_cnt[h] = s_cnt[g]
          /\ \A o \in Objs : \A h, g \in ObOwnersOf(o) : o_blk[h] = o_blk[g])

\* C24: in every live shared_ref and observed_ref the value pointer is null
\* exactly when the counter pointer is null; bool(h) holds exactly when the
\* count the handle reports is at least 1, and an empty handle reports 0.
C24_HandleRepresentation ==
    /\ \A h \in Handles :
           s_live[h] =>
               /\ (s_ptr[h] = Null) <=> (s_cnt[h] = Null)
               /\ sh_bool(ShWorld, h) <=> (sh_get_shared_ref_count(ShWorld, h) >= 1)
               /\ ~sh_bool(ShWorld, h) => sh_get_shared_ref_count(ShWorld, h) = 0
    /\ \A h \in Handles :
           o_live[h] =>
               /\ (o_ptr[h] = Null) <=> (o_blk[h] = Null)
               /\ ob_bool(ObWorld, h) <=> (ob_strong_count(ObWorld, h) >= 1)
               /\ ~ob_bool(ObWorld, h) => ob_strong_count(ObWorld, h) = 0

\* C24 witness: a move constructor has just left a live empty handle, which
\* reports count 0, next to two live handles that share a pointee with count 2
C24_Witness ==
    \/ /\ comp = "shared"
       /\ s_call = "move_ctor"
       /\ \E h, g \in Handles :
           /\ s_live[h] /\ ~sh_bool(ShWorld, h) /\ sh_get_shared_ref_count(ShWorld, h) = 0
           /\ s_live[g] /\ sh_bool(ShWorld, g) /\ sh_get_shared_ref_count(ShWorld, g) = 2
    \/ /\ comp = "observed"
       /\ o_call = "move_ctor"
       /\ \E h, g \in Handles :
           /\ o_live[h] /\ ~ob_bool(ObWorld, h) /\ ob_strong_count(ObWorld, h) = 0
           /\ o_live[g] /\ ob_bool(ObWorld, g) /\ ob_strong_count(ObWorld, g) = 2

\* nothing a shared_ref client can observe has changed: no handle's pointer or
\* counter pointer, no reference count, nothing freed
ShNothingChanged ==
    /\ s_ptr' = s_ptr /\ s_cnt' = s_cnt /\ s_live' = s_live
    /\ s_cell' = s_cell
    /\ s_objFrees' = s_objFrees /\ s_cellFrees' = s_cellFrees

ObNothingChanged ==
    /\ o_ptr' = o_ptr /\ o_blk' = o_blk /\ o_live' = o_live
    /\ o_strong' = o_strong /\ o_weak' = o_weak
    /\ o_objFrees' = o_objFrees /\ o_blkFrees' = o_blkFrees

\* the step just taken was the copy-assignment h = g on shared_ref handles,
\* with h and g the same handle or distinct non-empty handles sharing a pointee
ShAliasCopyAssignStep(h, g) ==
    /\ comp = "shared"
    /\ s_live[h] /\ s_live[g]
    /\ h = g \/ (s_ptr[h] # Null /\ s_ptr[h] = s_ptr[g])
    /\ ShStore(sh_copy_assign(ShWorld, h, g))

ObAliasCopyAssignStep(h, g) ==
    /\ comp = "observed"
    /\ o_live[h] /\ o_live[g]
    /\ h = g \/ (o_ptr[h] # Null /\ o_ptr[h] = o_ptr[g])
    /\ ObStore(ob_copy_assign(ObWorld, h, g))

\* C25: for shared_ref and observed_ref, self-assignment by copy or by move,
\* and the copy-assignment h = g between distinct handles that share an
\* allocation, leave every pointer, every reference count and every pointee's
\* liveness as they were, and h's release in the middle of the copy-assignment
\* frees nothing; the self-move-assignment of a unique_ref leaves it unchanged.
C25_AliasAssignmentChangesNothing ==
    [][/\ s_call' = "copy_assign" =>
           \A h, g \in Handles :
               ShAliasCopyAssignStep(h, g) =>
                   /\ ShNothingChanged
                   /\ h # g => sh_remove_owner(ShWorld, h).objFrees = s_objFrees
       /\ s_call' = "move_assign" =>
           \A h \in Handles :
               (comp = "shared" /\ s_live[h] /\ ShStore(sh_move_assign(ShWorld, h, h)))
                   => ShNothingChanged
       /\ o_call' = "copy_assign" =>
           \A h, g \in Handles :
               ObAliasCopyAssignStep(h, g) =>
                   /\ ObNothingChanged
                   /\ h # g => ob_remove_owner(ObWorld, h).objFrees = o_objFrees
       /\ o_call' = "move_assign" =>
           \A h \in Handles :
               (comp = "observed" /\ o_live[h] /\ ObStore(ob_move_assign(ObWorld, h, h)))
                   => ObNothingChanged
       /\ u_call'.op = "move_assign" =>
           \A h \in Handles :
               (comp = "unique" /\ u_live[h] /\ UnStore(un_move_assign(UnWorld, h, h)))
                   => u_ptr' = u_ptr /\ u_live' = u_live /\ u_objFrees' = u_objFrees]_vars

\* C25 witness: the copy-assignment h = g has just run between two distinct
\* live handles that share a pointee, whose count is 2 and which is not freed
C25_Witness ==
    \/ /\ comp = "shared"
       /\ s_call = "copy_assign"
       /\ \E h, g \in Handles :
           /\ h # g /\ s_live[h] /\ s_live[g]
           /\ s_ptr[h] # Null /\ s_ptr[h] = s_ptr[g]
           /\ s_cell[s_cnt[h]] = 2 /\ s_objFrees[s_ptr[h]] = 0
    \/ /\ comp = "observed"
       /\ o_call = "copy_assign"
       /\ \E h, g \in Handles :
           /\ h # g /\ o_live[h] /\ o_live[g]
           /\ o_ptr[h] # Null /\ o_ptr[h] = o_ptr[g]
           /\ o_strong[o_blk[h]] = 2 /\ o_objFrees[o_ptr[h]] = 0

=============================================================================
